---------------------------- MODULE Spec2Model ----------------------------
(***************************************************************************)
(* Experiment lifecycle and results aggregation of ai-startup-validator:   *)
(* ExperimentEngine (src/src/middleware/monitoring.ts) and ResultsTracker  *)
(* (src/unnamed/part_002).                                                 *)
(*                                                                         *)
(* ExperimentAnalyzer (src/src/controllers/ValidationController.ts),       *)
(* ExperimentTemplateManager (src/src/experiments/ExperimentTemplates.ts)  *)
(* and AuthService (src/unnamed/part_001).                                 *)
(*                                                                         *)
(* The specifications share the variables:                                 *)
(*   SpecClassify  the status classifiers applied to bounded inputs        *)
(*   Spec          the engine: createExperiment / runExperiment            *)
(*   SpecLive      Spec with the fairness of the engine's continuations    *)
(*   SpecTracker   the tracker: trackResults / trackMetric / addEvidence / *)
(*                 addInsight                                              *)
(*   SpecHistory   the tracker's per-type history up to its retention cap  *)
(*   SpecRecommend generateRecommendations applied to bounded aggregates   *)
(*   SpecReport    generateReport / getSuccessFactors on stored results    *)
(*   SpecAnalyzer  analyzeExperiment with failing enrichment collaborators *)
(*   SpecTemplates the template catalog: customizeTemplate                 *)
(*   SpecAuth      overlapping registerUser calls                          *)
(*   SpecNextSteps determineNextSteps applied to bounded inputs            *)
(*   SpecRetention the capped histories of MLFeedbackSystem                *)
(*                 (src/src/ml/MLFeedbackSystem.ts) and DataCollector      *)
(*                 (src/src/ml/DataCollector.ts)                           *)
(*   SpecUpdates   overlapping trackMetric / addEvidence calls             *)
(*   SpecSnapshot  generateReport suspended while the store is written     *)
(***************************************************************************)
EXTENDS Integers, Sequences, FiniteSets, TLC

VARIABLES
    templates,      \* ExperimentEngine.templates : type -> Experiment
    experiments,    \* ExperimentEngine.experiments : id -> object reference
    heap,           \* the Experiment objects created so far, by reference
    runs,           \* runExperiment calls suspended at an await, a multiset
    started,        \* number of runExperiment calls started (bounded)
    results,        \* ResultsTracker.results : type -> ExperimentResult[]
    typeMetrics,    \* ResultsTracker.metrics : type -> ExperimentMetrics
    inserted,       \* number of trackResults calls made so far, per type
    argMetrics,     \* input of a pure call: the metrics map
    argCriteria,    \* input of a pure call: the list of criteria or of steps
    catalog,        \* ExperimentTemplateManager.templates, in insertion order
    users,          \* the User collection, in creation order
    registrations,  \* registerUser calls suspended at an await, a multiset
    calls,          \* ResultsTracker calls suspended at an await, a multiset
    performanceHistory, \* MLFeedbackSystem.performanceHistory : stage id -> list
    collectedData,  \* DataCollector.collectedData : data type -> list
    accepted,       \* number of entries pushed so far, per history key
    lastCall        \* the most recent call, its arguments and its outcome

vars == <<templates, experiments, heap, runs, started, results, typeMetrics,
          inserted, argMetrics, argCriteria, catalog, users, registrations,
          calls, performanceHistory, collectedData, accepted, lastCall>>

engineVars == <<templates, experiments, heap, runs, started>>
trackerVars == <<results, typeMetrics, inserted>>
classifyVars == <<argMetrics, argCriteria>>
serviceVars == <<catalog, users, registrations>>
callVars == <<calls>>
mlVars == <<performanceHistory, collectedData, accepted>>

----------------------------------------------------------------------------
(* Bounds of the model *)

MaxCriteria == 10
MaxCreates == 2
MaxRuns == 2
MaxResults == 2
MaxEvidence == 1
MaxInserts == 1002
MaxOtherInserts == 1
MaxReported == 3
MaxInsights == 3
MaxRegistrations == 3
MaxTypeSteps == 2
MaxPending == 2
MaxAppended == 2
MaxReports == 1

----------------------------------------------------------------------------
(* Values *)

Range(s) == {s[i] : i \in 1..Len(s)}

\* a JavaScript Map with string keys: a function on the keys present
EmptyMap == [k \in {} |-> 0]
MapSet(m, k, v) == [x \in (DOMAIN m) \cup {k} |-> IF x = k THEN v ELSE m[x]]

\* a multiset: a function from its members to their counts
BagAdd(b, x) ==
    [y \in (DOMAIN b) \cup {x} |->
        IF y = x THEN (IF x \in DOMAIN b THEN b[x] + 1 ELSE 1) ELSE b[y]]
BagRemove(b, x) ==
    [y \in (IF b[x] > 1 THEN DOMAIN b ELSE (DOMAIN b) \ {x}) |->
        IF y = x THEN b[x] - 1 ELSE b[y]]

\* an optional value: <<>> when undefined, <<v>> when set
Undefined == <<>>
Some(v) == <<v>>

\* a / b on non-negative integers as JavaScript computes it: 0 / 0 is NaN,
\* otherwise the quotient, kept exact as numerator and denominator.  For
\* counts below 2^53 the double a / b compares with the double literals 0.8
\* and 0.3 as the exact quotient compares with 8/10 and 3/10.
Quotient(a, b) == [nan |-> (b = 0), num |-> a, den |-> b]
\* q >= n/d, q > n/d and q <= n/d; every comparison with NaN is false
QuotientGeq(q, n, d) == ~q.nan /\ q.num * d >= n * q.den
QuotientGt(q, n, d) == ~q.nan /\ q.num * d > n * q.den
QuotientLeq(q, n, d) == ~q.nan /\ q.num * d <= n * q.den

\* a JavaScript number that is not an integer of the model: the exact fraction
\* num/den in lowest terms, or NaN
RECURSIVE GCD(_, _)
GCD(a, b) == IF b = 0 THEN a ELSE GCD(b, a % b)
Abs(a) == IF a < 0 THEN 0 - a ELSE a
Number(n, d) ==
    IF d = 0 THEN [nan |-> TRUE, num |-> 0, den |-> 0]
    ELSE LET g == GCD(Abs(n), Abs(d))
             sign == IF d < 0 THEN 0 - 1 ELSE 1
         IN  [nan |-> FALSE, num |-> sign * (n \div g), den |-> sign * (d \div g)]
Plus(x, y) ==
    IF x.nan \/ y.nan THEN Number(0, 0)
    ELSE Number(x.num * y.den + y.num * x.den, x.den * y.den)
\* x / k for an integer k
DividedBy(x, k) == IF x.nan THEN Number(0, 0) ELSE Number(x.num, x.den * k)
\* xs.reduce((a, b) => a + b, 0); the exact sum does not depend on the order
\* of the additions, so the list is summed by halves
RECURSIVE SumRange(_, _, _)
SumRange(xs, lo, hi) ==
    IF lo > hi THEN Number(0, 1)
    ELSE IF lo = hi THEN xs[lo]
    ELSE LET mid == (lo + hi) \div 2
         IN  Plus(SumRange(xs, lo, mid), SumRange(xs, mid + 1, hi))
Sum(xs) == SumRange(xs, 1, Len(xs))

----------------------------------------------------------------------------
(* Status classification *)

\* ResultsTracker.determineStatus, the filter's predicate:
\* actualValue !== undefined && actualValue >= criterion.target
criterionMet(metrics, criterion) ==
    /\ criterion.metric \in DOMAIN metrics
    /\ metrics[criterion.metric] >= criterion.target

\* ExperimentEngine.determineExperimentStatus, the forEach's condition:
\* actualValue && actualValue >= criterion.target (0 is falsy)
criterionMetTruthy(metrics, criterion) ==
    /\ criterion.metric \in DOMAIN metrics
    /\ metrics[criterion.metric] # 0
    /\ metrics[criterion.metric] >= criterion.target

\* determineStatus with the success boundary exclusive
determineStatusStrict(metrics, successCriteria) ==
    LET criteriaMet == Len(SelectSeq(successCriteria,
                               LAMBDA c : criterionMet(metrics, c)))
        successRate == Quotient(criteriaMet, Len(successCriteria))
    IN  IF QuotientGt(successRate, 8, 10) THEN "success"
        ELSE IF QuotientLeq(successRate, 3, 10) THEN "failure"
        ELSE "inconclusive"

determineStatus(metrics, successCriteria) ==
    LET criteriaMet == Len(SelectSeq(successCriteria,
                               LAMBDA c : criterionMet(metrics, c)))
        successRate == Quotient(criteriaMet, Len(successCriteria))
    IN  IF QuotientGeq(successRate, 8, 10) THEN "success"
        ELSE IF QuotientLeq(successRate, 3, 10) THEN "failure"
        ELSE "inconclusive"

determineExperimentStatus(res, criteria) ==
    LET metCriteria == Len(SelectSeq(criteria,
                               LAMBDA c : criterionMetTruthy(res.metrics, c)))
        successRate == Quotient(metCriteria, Len(criteria))
    IN  IF QuotientGeq(successRate, 8, 10) THEN "completed" ELSE "failed"

----------------------------------------------------------------------------
(* ExperimentEngine: data *)

\* three of the nine members of ExperimentType; landing_page has no template
ExperimentTypes == {"problem_interview", "solution_interview", "landing_page"}

\* the ids Math.random can give generateExperimentId
ExperimentIds == {"exp_a", "exp_b"}
\* an id the engine never generates
UnknownId == "exp_zz"

\* ValidationContext, the field the engine reads: problem (optional)
Contexts ==
    { [problem |-> Undefined],
      [problem |-> Some("no easy budgeting tool")] }

Criterion(m, t) == [metric |-> m, target |-> t, unit |-> "percentage"]

ProblemInterviewTemplate ==
    [ id |-> "template_problem_interview",
      name |-> "Problem Interview",
      type |-> "problem_interview",
      hypothesis |-> << "Target customers experience ", "[problem]",
                        " and are actively seeking solutions" >>,
      success_criteria |-> << Criterion("problem_confirmation_rate", 80),
                              Criterion("active_solution_seeking", 60) >>,
      duration |-> 14,
      cost |-> 500,
      risk_level |-> "low",
      required_resources |->
          << "interviewer", "interview_guide", "recording_tool" >>,
      status |-> "planned",
      results |-> Undefined ]

SolutionInterviewTemplate ==
    [ id |-> "template_solution_interview",
      name |-> "Solution Interview",
      type |-> "solution_interview",
      hypothesis |->
          << "Our solution effectively addresses the validated problem" >>,
      success_criteria |-> << Criterion("solution_fit_score", 70),
                              Criterion("would_use_score", 60) >>,
      duration |-> 21,
      cost |-> 1000,
      risk_level |-> "medium",
      required_resources |-> << "prototype", "interviewer", "feedback_form" >>,
      status |-> "planned",
      results |-> Undefined ]

\* the templates map after initializeTemplates()
initializeTemplates ==
    MapSet(MapSet(EmptyMap, "problem_interview", ProblemInterviewTemplate),
           "solution_interview", SolutionInterviewTemplate)

\* baseHypothesis.replace('[problem]', context.problem || 'the identified
\* problem'): a hypothesis is the sequence of its pieces, the placeholder one
\* piece; replace() substitutes the first occurrence only
customizeHypothesis(baseHypothesis, context) ==
    LET replacement ==
            IF context.problem # Undefined /\ context.problem[1] # ""
            THEN context.problem[1] ELSE "the identified problem"
        hits == {i \in 1..Len(baseHypothesis) : baseHypothesis[i] = "[problem]"}
        first == IF hits = {} THEN 0
                 ELSE CHOOSE i \in hits : \A j \in hits : i <= j
    IN  [i \in 1..Len(baseHypothesis) |->
            IF i = first THEN replacement ELSE baseHypothesis[i]]

\* an adjustment that scales the target with the context
adjustTargetScaled(baseTarget, context) ==
    IF context.problem # Undefined THEN baseTarget + 5 ELSE baseTarget

adjustTarget(baseTarget, context) == baseTarget

adjustSuccessCriteria(criteria, context) ==
    [i \in 1..Len(criteria) |->
        [criteria[i] EXCEPT !.target = adjustTarget(criteria[i].target, context)]]

\* a simulation whose metrics are the ones the problem interview's criteria
\* name
simulateMeetingCriteria(experiment) ==
    [ metrics |-> MapSet(MapSet(EmptyMap, "problem_confirmation_rate", 90),
                         "active_solution_seeking", 70),
      insights |-> << "Key insight 1", "Key insight 2" >>,
      learnings |-> << "Learning 1", "Learning 2" >>,
      next_steps |-> << "Next step 1", "Next step 2" >>,
      evidence_strength |-> Number(4, 5) ]

\* the results simulateExperimentExecution resolves to; evidence_strength 0.8
simulateExperimentExecution(experiment) ==
    [ metrics |-> MapSet(MapSet(EmptyMap, "response_rate", 75),
                         "success_rate", 65),
      insights |-> << "Key insight 1", "Key insight 2" >>,
      learnings |-> << "Learning 1", "Learning 2" >>,
      next_steps |-> << "Next step 1", "Next step 2" >>,
      evidence_strength |-> Number(4, 5) ]

----------------------------------------------------------------------------
(* ResultsTracker: data and operations on the results map *)

\* trackResults, findExperimentResult, updateMetrics, calculateEvidenceStrength
\* and calculateMetricReliability are called by the source but defined nowhere
\* in it; they follow spec.md sections 3 and 4.5.  Sums and means are exact:
\* the rounding of the doubles is left out.

\* the order in which the per-type lists are searched
TypeOrder == << "problem_interview", "solution_interview", "landing_page" >>

\* the number of results the tracker keeps per experiment type
HistoryCap == 1000

ResultsOf(rs, type) == IF type \in DOMAIN rs THEN rs[type] ELSE <<>>

\* the ExperimentResult trackResults stores for a finished experiment
newResult(experiment) ==
    LET r == experiment.results[1]
    IN  [ experimentId |-> experiment.id,
          experimentType |-> experiment.type,
          metrics |-> r.metrics,
          insights |-> r.insights,
          status |-> determineStatus(r.metrics, experiment.success_criteria),
          evidence |-> <<>>,
          confidence |-> Number(0, 1) ]


\* trackResults that appends without evicting
trackResultsUnbounded(rs, experiment) ==
    MapSet(rs, experiment.type,
           Append(ResultsOf(rs, experiment.type), newResult(experiment)))

\* trackResults: append to the type's history, then drop the oldest entry
\* when the history is longer than the cap
trackResults(rs, experiment) ==
    LET pushed == Append(ResultsOf(rs, experiment.type), newResult(experiment))
    IN  MapSet(rs, experiment.type,
               IF Len(pushed) > HistoryCap THEN Tail(pushed) ELSE pushed)

\* where findExperimentResult finds the result of an experiment id: the
\* first match, as <<type, index>>; <<>> when there is none
findExperimentResult(rs, experimentId) ==
    LET hitsIn(k) ==
            { <<k, i>> : i \in
                { j \in 1..Len(ResultsOf(rs, TypeOrder[k])) :
                    rs[TypeOrder[k]][j].experimentId = experimentId } }
        hits == UNION { hitsIn(k) : k \in 1..Len(TypeOrder) }
    IN  IF hits = {} THEN <<>>
        ELSE LET h == CHOOSE h \in hits : \A g \in hits :
                          h[1] < g[1] \/ (h[1] = g[1] /\ h[2] <= g[2])
             IN  << TypeOrder[h[1]], h[2] >>

Found(rs, experimentId) == findExperimentResult(rs, experimentId) # <<>>
ResultAt(rs, where) == rs[where[1]][where[2]]

\* Evidence { type, source, value, reliability }
Evidence(kind, source, value, reliability) ==
    [type |-> kind, source |-> source, value |-> value,
     reliability |-> reliability]

\* the strength of a result's evidence: the mean reliability
calculateEvidenceStrength(evidence) ==
    DividedBy(Sum([i \in 1..Len(evidence) |-> evidence[i].reliability]),
              Len(evidence))

\* the reliability of a result's metrics
calculateMetricReliability(metrics) == Number(1, 1)

\* an aggregate that reads the most recent result only
aggregateLatest(list) ==
    [ success_rate |->
          IF list = <<>> THEN Number(0, 0)
          ELSE IF list[Len(list)].status = "success"
               THEN Number(1, 1) ELSE Number(0, 1),
      evidence_strength |->
          IF list = <<>> THEN Number(0, 0)
          ELSE calculateEvidenceStrength(list[Len(list)].evidence),
      confidence_level |->
          IF list = <<>> THEN Number(0, 0) ELSE list[Len(list)].confidence ]

\* the type's aggregate: success_rate, evidence_strength and confidence_level
\* are the means over the type's stored results
aggregate(list) ==
    [ success_rate |->
          DividedBy(Sum([i \in 1..Len(list) |->
                        IF list[i].status = "success"
                        THEN Number(1, 1) ELSE Number(0, 1)]), Len(list)),
      evidence_strength |->
          DividedBy(Sum([i \in 1..Len(list) |->
                        calculateEvidenceStrength(list[i].evidence)]),
                    Len(list)),
      confidence_level |->
          DividedBy(Sum([i \in 1..Len(list) |-> list[i].confidence]),
                    Len(list)) ]

updateMetrics(tm, rs, type) == MapSet(tm, type, aggregate(ResultsOf(rs, type)))

calculateReliability(result) ==
    LET metricReliability == calculateMetricReliability(result.metrics)
        evidenceReliability ==
            DividedBy(Sum([i \in 1..Len(result.evidence) |->
                              result.evidence[i].reliability]),
                      Len(result.evidence))
    IN  DividedBy(Plus(metricReliability, evidenceReliability), 2)

\* updateExperimentConfidence, its effect on the results map
updateExperimentConfidence(rs, experimentId, evidenceStrength, reliability) ==
    LET w == findExperimentResult(rs, experimentId)
    IN  IF w # <<>>
        THEN [rs EXCEPT ![w[1]][w[2]].confidence =
                            DividedBy(Plus(evidenceStrength, reliability), 2)]
        ELSE rs

analyzeEvidence(rs, result) ==
    updateExperimentConfidence(rs, result.experimentId,
                               calculateEvidenceStrength(result.evidence),
                               calculateReliability(result))

\* trackMetric that replaces the metric map by the one entry
trackMetricReplacing(rs, experimentId, metric, value) ==
    LET w == findExperimentResult(rs, experimentId)
    IN  IF w # <<>>
        THEN [rs EXCEPT ![w[1]][w[2]].metrics = MapSet(EmptyMap, metric, value)]
        ELSE rs

\* trackMetric, its effect on the results map
trackMetricOn(rs, experimentId, metric, value) ==
    LET w == findExperimentResult(rs, experimentId)
    IN  IF w # <<>>
        THEN [rs EXCEPT ![w[1]][w[2]].metrics = MapSet(@, metric, value)]
        ELSE rs

\* addEvidence that stores the new item in place of the list
addEvidenceReplacing(rs, experimentId, evidence) ==
    LET w == findExperimentResult(rs, experimentId)
    IN  IF w # <<>>
        THEN LET pushed == [rs EXCEPT ![w[1]][w[2]].evidence = <<evidence>>]
             IN  analyzeEvidence(pushed, ResultAt(pushed, w))
        ELSE rs

\* addEvidence, its effect on the results map
addEvidenceOn(rs, experimentId, evidence) ==
    LET w == findExperimentResult(rs, experimentId)
    IN  IF w # <<>>
        THEN LET pushed == [rs EXCEPT ![w[1]][w[2]].evidence =
                                          Append(@, evidence)]
             IN  analyzeEvidence(pushed, ResultAt(pushed, w))
        ELSE rs

\* addInsight that appends without looking for the string
addInsightAlways(rs, experimentId, insight) ==
    LET w == findExperimentResult(rs, experimentId)
    IN  IF w # <<>>
        THEN [rs EXCEPT ![w[1]][w[2]].insights = Append(@, insight)]
        ELSE rs

\* addInsight, its effect on the results map
addInsightOn(rs, experimentId, insight) ==
    LET w == findExperimentResult(rs, experimentId)
    IN  IF w # <<>> /\ insight \notin Range(ResultAt(rs, w).insights)
        THEN [rs EXCEPT ![w[1]][w[2]].insights = Append(@, insight)]
        ELSE rs

\* the aggregate after a call that found its result and awaited updateMetrics
MetricsAfter(tm, rsBefore, rsAfter, experimentId) ==
    LET w == findExperimentResult(rsBefore, experimentId)
    IN  IF w # <<>> THEN updateMetrics(tm, rsAfter, w[1]) ELSE tm

----------------------------------------------------------------------------
(* ExperimentTemplateManager: data *)

\* SuccessCriteria { metric, target, minimum, unit }
SuccessCriteria(m, t, min) ==
    [metric |-> m, target |-> t, minimum |-> min, unit |-> "percentage"]

\* createProblemInterviewTemplate(); of the list-valued fields the success
\* criteria and the references are kept, the others are carried the same way
createProblemInterviewTemplate ==
    [ id |-> "problem_interview_01",
      name |-> "Problem Interview (MOM Test)",
      stage |-> "problem_validation",
      type |-> "customer_interview",
      description |->
          "Validate problem existence and significance through customer interviews",
      duration |-> 14,
      hypothesis |->
          "Target customers experience [problem] and are actively seeking solutions",
      successCriteria |->
          << SuccessCriteria("problem_confirmation_rate", 80, 60),
             SuccessCriteria("active_solution_seeking", 60, 40) >>,
      references |-> << "The Mom Test" >> ]

createSolutionInterviewTemplate ==
    [ id |-> "solution_interview_01",
      name |-> "Solution Interview",
      stage |-> "solution_validation",
      type |-> "solution_interview",
      description |-> "Validate solution fit and value proposition",
      duration |-> 21,
      hypothesis |->
          "Our solution effectively addresses the validated problem",
      successCriteria |->
          << SuccessCriteria("solution_fit_score", 80, 60),
             SuccessCriteria("would_use_score", 70, 50) >>,
      references |-> << "Value Proposition Design" >> ]

\* addTemplate: templates.set(template.id, template); a Map keeps its keys in
\* insertion order and a key set again keeps its place
addTemplate(cat, template) ==
    IF \E i \in 1..Len(cat) : cat[i].id = template.id
    THEN [i \in 1..Len(cat) |->
             IF cat[i].id = template.id THEN template ELSE cat[i]]
    ELSE Append(cat, template)

\* the catalog after the constructor: the two templates whose creators the
\* source defines
initializeCatalog ==
    addTemplate(addTemplate(<<>>, createProblemInterviewTemplate),
                createSolutionInterviewTemplate)

----------------------------------------------------------------------------
(* The calls and their outcomes *)

Call(op, id, arg, outcome) ==
    [op |-> op, id |-> id, arg |-> arg, outcome |-> outcome]
NoCall == Call("none", "", <<>>, "")

\* the state after the constructors
InitEngine ==
    /\ templates = initializeTemplates
    /\ experiments = EmptyMap
    /\ heap = <<>>
    /\ runs = EmptyMap
    /\ started = 0
InitTracker ==
    /\ results = EmptyMap
    /\ typeMetrics = EmptyMap
    /\ inserted = [type \in ExperimentTypes |-> 0]
\* the stage ids and data types whose histories the model fills
StageIds == {"problem_validation", "solution_validation"}
DataTypes == {"market", "funding"}
HistoryKeys == StageIds \cup DataTypes

InitNoInputs ==
    /\ argMetrics = EmptyMap
    /\ argCriteria = <<>>
InitServices ==
    /\ catalog = initializeCatalog
    /\ users = <<>>
    /\ registrations = EmptyMap
    /\ calls = EmptyMap
    /\ performanceHistory = EmptyMap
    /\ collectedData = EmptyMap
    /\ accepted = [key \in HistoryKeys |-> 0]

----------------------------------------------------------------------------
(* ExperimentEngine: operations *)

\* the experiment object createExperiment builds from a template
newExperiment(template, id, context) ==
    [template EXCEPT
        !.id = id,
        !.hypothesis = customizeHypothesis(template.hypothesis, context),
        !.success_criteria =
            adjustSuccessCriteria(template.success_criteria, context),
        !.status = "planned"]

\* createExperiment that falls back to the first template for a type that
\* has none
createExperimentFallback(type, context, id) ==
    LET template == IF type \in DOMAIN templates THEN templates[type]
                    ELSE templates["problem_interview"]
    IN  /\ Len(heap) < MaxCreates
        /\ heap' = Append(heap, newExperiment(template, id, context))
        /\ experiments' = MapSet(experiments, id, Len(heap) + 1)
        /\ lastCall' = Call("createExperiment", id, <<type>>, "ok")
        /\ UNCHANGED <<templates, runs, started, trackerVars, classifyVars,
                      serviceVars,
               callVars, mlVars>>

\* createExperiment(type, context); id is what generateExperimentId returns
createExperiment(type, context, id) ==
    IF type \notin DOMAIN templates
    THEN /\ lastCall' = Call("createExperiment", "", <<type>>, "error")
         /\ UNCHANGED <<engineVars, trackerVars, classifyVars, serviceVars,
               callVars, mlVars>>
    ELSE /\ Len(heap) < MaxCreates
         /\ heap' = Append(heap, newExperiment(templates[type], id, context))
         /\ experiments' = MapSet(experiments, id, Len(heap) + 1)
         /\ lastCall' = Call("createExperiment", id, <<type>>, "ok")
         /\ UNCHANGED <<templates, runs, started, trackerVars, classifyVars,
                      serviceVars,
               callVars, mlVars>>

\* runExperiment up to its first await: the lookup, the status write and the
\* call of simulateExperimentExecution
runExperimentBegin(experimentId) ==
    IF experimentId \notin DOMAIN experiments
    THEN /\ lastCall' = Call("runExperiment", experimentId, <<>>, "error")
         /\ UNCHANGED <<engineVars, trackerVars, classifyVars, serviceVars,
               callVars, mlVars>>
    ELSE LET ref == experiments[experimentId]
         IN  /\ started < MaxRuns
             /\ started' = started + 1
             /\ heap' = [heap EXCEPT ![ref].status = "in_progress"]
             /\ runs' = BagAdd(runs, [exp |-> ref, id |-> experimentId,
                                      pc |-> "simulate"])
             /\ lastCall' =
                    Call("runExperiment", experimentId, <<>>, "suspended")
             /\ UNCHANGED <<templates, experiments, trackerVars, classifyVars,
                           serviceVars,
               callVars, mlVars>>

\* runExperiment from the first await to the second: the results and status
\* writes and the call of trackResults
runExperimentResume(run) ==
    /\ run.pc = "simulate"
    /\ LET ref == run.exp
           res == simulateExperimentExecution(heap[ref])
           experiment ==
               [heap[ref] EXCEPT
                   !.results = Some(res),
                   !.status = determineExperimentStatus(
                                  res, heap[ref].success_criteria)]
       IN  /\ heap' = [heap EXCEPT ![ref] = experiment]
           /\ results' = trackResults(results, experiment)
           /\ typeMetrics' = updateMetrics(typeMetrics, results', experiment.type)
           /\ runs' = BagAdd(BagRemove(runs, run), [run EXCEPT !.pc = "track"])
           /\ lastCall' = Call("runExperiment", run.id, <<>>, "resumed")
    /\ UNCHANGED <<templates, experiments, started, inserted, classifyVars,
                   serviceVars,
               callVars, mlVars>>

\* runExperiment after the second await: it returns the results
runExperimentReturn(run) ==
    /\ run.pc = "track"
    /\ runs' = BagRemove(runs, run)
    /\ lastCall' = Call("runExperiment", run.id, <<>>, "returned")
    /\ UNCHANGED <<templates, experiments, heap, started, trackerVars,
                   classifyVars, serviceVars,
               callVars, mlVars>>

Init ==
    InitEngine /\ InitTracker /\ InitNoInputs /\ InitServices /\ lastCall = NoCall

Next ==
    \/ \E type \in ExperimentTypes, context \in Contexts, id \in ExperimentIds :
           createExperiment(type, context, id)
    \/ \E id \in ExperimentIds \cup {UnknownId} : runExperimentBegin(id)
    \/ \E run \in DOMAIN runs : runExperimentResume(run)
    \/ \E run \in DOMAIN runs : runExperimentReturn(run)

Spec == Init /\ [][Next]_vars

\* Spec with the fairness the engine itself provides.  The continuation after
\* the await of trackResults runs in the engine's own process.  The
\* continuation after the await of the data collection runs when the
\* collection delivers: runExperiment takes no deadline and starts no timer,
\* so nothing in the engine obliges that step
SpecLive ==
    /\ Init /\ [][Next]_vars
    /\ WF_vars(\E run \in DOMAIN runs : runExperimentReturn(run))

----------------------------------------------------------------------------
(* SpecClassify: the two classifiers applied to bounded inputs *)

\* the criteria the input lists are built from
CriteriaPool ==
    { Criterion("problem_confirmation_rate", 80),
      Criterion("active_solution_seeking", 0) }
\* the values a metric of the input map may have, when present
MetricValues == {0, 80, 85}
MetricMaps ==
    UNION { [names -> MetricValues] :
              names \in SUBSET {"problem_confirmation_rate",
                                "active_solution_seeking"} }

InitClassify ==
    /\ InitEngine /\ InitTracker /\ InitServices
    /\ argMetrics \in MetricMaps
    /\ argCriteria = <<>>
    /\ lastCall = NoCall

\* the caller extends the criteria list
PushCriterion(c) ==
    /\ Len(argCriteria) < MaxCriteria
    /\ argCriteria' = Append(argCriteria, c)
    /\ lastCall' = NoCall
    /\ UNCHANGED <<engineVars, trackerVars, argMetrics, serviceVars,
               callVars, mlVars>>

\* ResultsTracker.determineStatus(argMetrics, argCriteria)
ClassifyTracker ==
    /\ lastCall' = Call("determineStatus", "", <<>>,
                        determineStatus(argMetrics, argCriteria))
    /\ UNCHANGED <<engineVars, trackerVars, classifyVars, serviceVars,
               callVars, mlVars>>

\* ExperimentEngine.determineExperimentStatus(results, argCriteria), the
\* results holding argMetrics
ClassifyEngine ==
    /\ lastCall' = Call("determineExperimentStatus", "", <<>>,
                        determineExperimentStatus([metrics |-> argMetrics],
                                                  argCriteria))
    /\ UNCHANGED <<engineVars, trackerVars, classifyVars, serviceVars,
               callVars, mlVars>>

NextClassify ==
    \/ \E c \in CriteriaPool : PushCriterion(c)
    \/ ClassifyTracker
    \/ ClassifyEngine

SpecClassify == InitClassify /\ [][NextClassify]_vars

----------------------------------------------------------------------------
(* SpecTracker: the tracker's operations on a few stored results *)

\* an experiment as runExperiment hands it to trackResults
finishedExperiment(type, id) ==
    LET experiment == newExperiment(initializeTemplates[type], id,
                                    [problem |-> Undefined])
        res == simulateExperimentExecution(experiment)
    IN  [experiment EXCEPT
            !.results = Some(res),
            !.status = determineExperimentStatus(res,
                                                 experiment.success_criteria)]

\* the experiments handed to trackResults, as <<type, id>>
TrackedExperiments ==
    { <<"problem_interview", "exp_a">>, <<"solution_interview", "exp_b">> }
TrackedMetrics == {"response_rate", "problem_confirmation_rate"}
TrackedValues == {85}
Insights == {"Key insight 1", "Customers budget in spreadsheets"}
EvidenceItems == { Evidence("quantitative", "survey", 42, Number(3, 2)) }

StoredResults(rs) ==
    LET RECURSIVE count(_)
        count(S) == IF S = {} THEN 0
                    ELSE LET t == CHOOSE t \in S : TRUE
                         IN  Len(rs[t]) + count(S \ {t})
    IN  count(DOMAIN rs)

\* trackResults(experiment) followed by the aggregate's update
TrackResults(type, id) ==
    /\ StoredResults(results) < MaxResults
    /\ results' = trackResults(results, finishedExperiment(type, id))
    /\ typeMetrics' = updateMetrics(typeMetrics, results', type)
    /\ lastCall' = Call("trackResults", id, <<type>>, "ok")
    /\ UNCHANGED <<engineVars, inserted, classifyVars, serviceVars,
               callVars, mlVars>>

trackMetric(experimentId, metric, value) ==
    /\ results' = trackMetricOn(results, experimentId, metric, value)
    /\ typeMetrics' = MetricsAfter(typeMetrics, results, results', experimentId)
    /\ lastCall' = Call("trackMetric", experimentId, <<metric, value>>, "ok")
    /\ UNCHANGED <<engineVars, inserted, classifyVars, serviceVars,
               callVars, mlVars>>

addEvidence(experimentId, evidence) ==
    /\ Found(results, experimentId) =>
           Len(ResultAt(results, findExperimentResult(results, experimentId))
                   .evidence) < MaxEvidence
    /\ results' = addEvidenceOn(results, experimentId, evidence)
    /\ typeMetrics' = MetricsAfter(typeMetrics, results, results', experimentId)
    /\ lastCall' = Call("addEvidence", experimentId, <<evidence>>, "ok")
    /\ UNCHANGED <<engineVars, inserted, classifyVars, serviceVars,
               callVars, mlVars>>

addInsight(experimentId, insight) ==
    /\ results' = addInsightOn(results, experimentId, insight)
    /\ lastCall' = Call("addInsight", experimentId, <<insight>>, "ok")
    /\ UNCHANGED <<engineVars, typeMetrics, inserted, classifyVars, serviceVars,
               callVars, mlVars>>

NextTracker ==
    \/ \E e \in TrackedExperiments : TrackResults(e[1], e[2])
    \/ \E id \in ExperimentIds \cup {UnknownId}, metric \in TrackedMetrics,
          value \in TrackedValues : trackMetric(id, metric, value)
    \/ \E id \in ExperimentIds \cup {UnknownId}, evidence \in EvidenceItems :
           addEvidence(id, evidence)
    \/ \E id \in ExperimentIds \cup {UnknownId}, insight \in Insights :
           addInsight(id, insight)

SpecTracker == Init /\ [][NextTracker]_vars

----------------------------------------------------------------------------
(* SpecHistory: one type's history filled past its cap *)

\* the id of the n-th experiment of a type handed to the tracker
NthId(type, n) == "exp_" \o type \o "_" \o ToString(n)

HistoryInsert(type, bound) ==
    /\ inserted[type] < bound
    /\ inserted' = [inserted EXCEPT ![type] = @ + 1]
    /\ results' = trackResults(results,
                       finishedExperiment(type, NthId(type, inserted'[type])))
    /\ typeMetrics' = updateMetrics(typeMetrics, results', type)
    /\ lastCall' = Call("trackResults", NthId(type, inserted'[type]),
                        <<type>>, "ok")
    /\ UNCHANGED <<engineVars, classifyVars, serviceVars,
               callVars, mlVars>>

NextHistory ==
    \/ HistoryInsert("problem_interview", MaxInserts)
    \/ HistoryInsert("solution_interview", MaxOtherInserts)

SpecHistory == Init /\ [][NextHistory]_vars

----------------------------------------------------------------------------
(* Properties *)

\* the number of criteria a metrics map meets: present and actual >= target
MetCount(metrics, criteria) ==
    Cardinality({ i \in 1..Len(criteria) :
                    /\ criteria[i].metric \in DOMAIN metrics
                    /\ metrics[criteria[i].metric] >= criteria[i].target })

\* C1: for a non-empty criteria list determineStatus returns success iff
\* met/total >= 0.8, failure iff met/total <= 0.3 and inconclusive otherwise,
\* where a criterion is met iff its metric is present and actual >= target;
\* 4 of 5 met is success and 3 of 10 met is failure.
C1_ClassifyThresholds ==
    (lastCall.op = "determineStatus" /\ Len(argCriteria) > 0) =>
        LET met == MetCount(argMetrics, argCriteria)
            total == Len(argCriteria)
        IN  /\ (lastCall.outcome = "success") <=> (5 * met >= 4 * total)
            /\ (lastCall.outcome = "failure") <=> (10 * met <= 3 * total)
            /\ (lastCall.outcome = "inconclusive") <=>
                   (5 * met < 4 * total /\ 10 * met > 3 * total)
            /\ (total = 5 /\ met = 4) => lastCall.outcome = "success"
            /\ (total = 10 /\ met = 3) => lastCall.outcome = "failure"

\* determineStatus was applied to ten criteria of which three are met
C1_Witness ==
    /\ lastCall.op = "determineStatus"
    /\ Len(argCriteria) = 10
    /\ MetCount(argMetrics, argCriteria) = 3
    /\ lastCall.outcome = "failure"

\* C2: classifying against an empty criteria list fails with
\* InvalidExperiment, in determineStatus and in determineExperimentStatus.
C2_EmptyCriteriaRejected ==
    ( /\ lastCall.op \in {"determineStatus", "determineExperimentStatus"}
      /\ argCriteria = <<>> )
        => lastCall.outcome = "InvalidExperiment"

AllowedTransitions ==
    { <<"planned", "in_progress">>, <<"in_progress", "completed">>,
      <<"in_progress", "failed">>, <<"planned", "cancelled">>,
      <<"in_progress", "cancelled">> }

\* C3: every change of an experiment's status is one of planned->in_progress,
\* in_progress->completed, in_progress->failed, planned->cancelled,
\* in_progress->cancelled, and createExperiment and runExperiment never set
\* cancelled.
C3_ForwardOnly ==
    [][ /\ \A ref \in 1..Len(heap) :
               heap'[ref].status # heap[ref].status =>
                   /\ <<heap[ref].status, heap'[ref].status>>
                          \in AllowedTransitions
                   /\ heap'[ref].status # "cancelled"
        /\ \A ref \in (Len(heap) + 1)..Len(heap') :
               heap'[ref].status # "cancelled" ]_vars

\* C4: createExperiment with a type that has no template and runExperiment
\* with an id that is not in the store fail with an error, and a failed call
\* leaves the store, the experiments, the templates and the tracker unchanged.
C4_FailuresChangeNothing ==
    [][ /\ ( /\ lastCall'.op = "createExperiment"
             /\ lastCall'.arg[1] \notin DOMAIN templates )
               => lastCall'.outcome = "error"
        /\ ( /\ lastCall'.op = "runExperiment"
             /\ lastCall'.outcome \in {"suspended", "error"}
             /\ lastCall'.id \notin DOMAIN experiments )
               => lastCall'.outcome = "error"
        /\ lastCall'.outcome = "error" =>
               UNCHANGED <<templates, experiments, heap, runs, results,
                           typeMetrics>> ]_vars

\* a createExperiment call failed while experiments and results were stored
C4_Witness ==
    /\ lastCall.op = "createExperiment"
    /\ lastCall.outcome = "error"
    /\ DOMAIN experiments # {}
    /\ DOMAIN results # {}

\* C5: a successful createExperiment adds exactly one experiment, planned and
\* without results, under an id that was not in the store, and leaves every
\* stored experiment and every template unchanged.
C5_CreateAddsFreshExperiment ==
    [][ (lastCall'.op = "createExperiment" /\ lastCall'.outcome = "ok") =>
            /\ lastCall'.id \notin DOMAIN experiments
            /\ DOMAIN experiments' = DOMAIN experiments \cup {lastCall'.id}
            /\ \A id \in DOMAIN experiments :
                   /\ experiments'[id] = experiments[id]
                   /\ heap'[experiments'[id]] = heap[experiments[id]]
            /\ heap'[experiments'[lastCall'.id]].status = "planned"
            /\ heap'[experiments'[lastCall'.id]].results = Undefined
            /\ templates' = templates ]_vars

ScenarioMetrics(confirmation, seeking) ==
    MapSet(MapSet(EmptyMap, "problem_confirmation_rate", confirmation),
           "active_solution_seeking", seeking)

\* C6: every experiment created from the problem_interview template has the
\* template's success criteria (problem_confirmation_rate 80, then
\* active_solution_seeking 60) whatever the context, and against them
\* {85, 65} classifies as success, {50, 20} as failure and {85, 20} as
\* inconclusive.
C6_TemplateCriteriaKept ==
    \A ref \in 1..Len(heap) :
        heap[ref].type = "problem_interview" =>
            LET criteria == heap[ref].success_criteria
            IN  /\ criteria = templates["problem_interview"].success_criteria
                /\ criteria = << Criterion("problem_confirmation_rate", 80),
                                 Criterion("active_solution_seeking", 60) >>
                /\ determineStatus(ScenarioMetrics(85, 65), criteria) = "success"
                /\ determineStatus(ScenarioMetrics(50, 20), criteria) = "failure"
                /\ determineStatus(ScenarioMetrics(85, 20), criteria)
                       = "inconclusive"

\* a problem_interview experiment was created from the budgeting context
C6_Witness ==
    \E ref \in 1..Len(heap) :
        /\ heap[ref].type = "problem_interview"
        /\ heap[ref].hypothesis[2] = "no easy budgeting tool"

Occurrences(xs, x) == Cardinality({ i \in 1..Len(xs) : xs[i] = x })

\* C7: addInsight on a known id appends the string iff it is not present,
\* keeps the existing insights in order, and calling it again with the same
\* string changes nothing.
C7_AddInsightIdempotent ==
    [][ (lastCall'.op = "addInsight" /\ Found(results, lastCall'.id)) =>
            LET id == lastCall'.id
                insight == lastCall'.arg[1]
                w == findExperimentResult(results, id)
                before == ResultAt(results, w).insights
                after == ResultAt(results', w).insights
            IN  /\ after = IF insight \in Range(before) THEN before
                           ELSE Append(before, insight)
                /\ Occurrences(after, insight) = 1
                /\ ResultAt(addInsightOn(results', id, insight), w).insights
                       = after ]_vars

\* addInsight added a string that the result did not hold
C7_Witness ==
    /\ lastCall.op = "addInsight"
    /\ Found(results, lastCall.id)
    /\ LET insights ==
               ResultAt(results, findExperimentResult(results, lastCall.id))
                   .insights
       IN  /\ Len(insights) = 3
           /\ insights[3] = lastCall.arg[1]

\* C8: trackMetric, addEvidence and addInsight with an id that has no stored
\* result surface NotFound to the caller.
C8_UnknownIdSurfaced ==
    [][ ( /\ lastCall'.op \in {"trackMetric", "addEvidence", "addInsight"}
          /\ ~Found(results, lastCall'.id) )
            => lastCall'.outcome = "NotFound" ]_vars

\* C9: trackMetric(id, m, v) on a known id leaves the result's metric m equal
\* to v, keeps its other metrics, changes no other result, and changes
\* nothing more when called again with the same arguments.
C9_TrackMetricUpserts ==
    [][ (lastCall'.op = "trackMetric" /\ Found(results, lastCall'.id)) =>
            LET id == lastCall'.id
                metric == lastCall'.arg[1]
                value == lastCall'.arg[2]
                w == findExperimentResult(results, id)
                before == ResultAt(results, w).metrics
                after == ResultAt(results', w).metrics
            IN  /\ DOMAIN after = DOMAIN before \cup {metric}
                /\ after[metric] = value
                /\ \A k \in DOMAIN before \ {metric} : after[k] = before[k]
                /\ DOMAIN results' = DOMAIN results
                /\ \A t \in DOMAIN results :
                       /\ Len(results'[t]) = Len(results[t])
                       /\ \A i \in 1..Len(results[t]) :
                              <<t, i>> # w => results'[t][i] = results[t][i]
                /\ trackMetricOn(results', id, metric, value) = results' ]_vars

\* trackMetric added a metric to one of two stored results
C9_Witness ==
    /\ lastCall.op = "trackMetric"
    /\ StoredResults(results) >= 2
    /\ Found(results, lastCall.id)
    /\ LET metrics ==
               ResultAt(results, findExperimentResult(results, lastCall.id))
                   .metrics
       IN  /\ Cardinality(DOMAIN metrics) = 3
           /\ metrics[lastCall.arg[1]] = lastCall.arg[2]

\* C10: each type's history holds at most 1000 results, the most recently
\* inserted ones in insertion order: an insertion into a full history evicts
\* exactly the earliest result.
C10_HistoryKeepsLatest ==
    \A type \in DOMAIN results :
        LET n == inserted[type]
            len == Len(results[type])
        IN  /\ len <= 1000
            /\ len = IF n <= 1000 THEN n ELSE 1000
            /\ \A i \in 1..len :
                   results[type][i].experimentId = NthId(type, n - len + i)

\* 1001 results of one type were inserted: the first is gone, 1000 remain
C10_Witness ==
    /\ inserted["problem_interview"] = 1001
    /\ Len(results["problem_interview"]) = 1000
    /\ results["problem_interview"][1].experimentId
           = NthId("problem_interview", 2)

----------------------------------------------------------------------------
(* ResultsTracker: reports *)

\* x < n/d for a number x and the decimal literal n/d; false when x is NaN.
\* A double equal to the literal compares as the exact fraction does.
NumberLt(x, n, d) == ~x.nan /\ x.num * d < n * x.den
NumberLeq(x, n, d) == ~x.nan /\ x.num * d <= n * x.den
NumberGt(x, n, d) == ~x.nan /\ x.num * d > n * x.den

\* generateRecommendations with the thresholds inclusive
generateRecommendationsInclusive(list, metrics) ==
    (IF NumberLeq(metrics.success_rate, 1, 2)
     THEN << "Review experiment design and success criteria",
             "Consider increasing sample size or experiment duration" >>
     ELSE <<>>)
    \o (IF NumberLeq(metrics.evidence_strength, 7, 10)
        THEN << "Collect more quantitative data",
                "Increase diversity of evidence sources" >>
        ELSE <<>>)
    \o (IF NumberLeq(metrics.confidence_level, 3, 5)
        THEN << "Strengthen validation methodology",
                "Consider additional validation techniques" >>
        ELSE <<>>)

\* generateRecommendations(results, metrics): the three rules push their two
\* items in turn; the results argument is not read
generateRecommendations(list, metrics) ==
    (IF NumberLt(metrics.success_rate, 1, 2)
     THEN << "Review experiment design and success criteria",
             "Consider increasing sample size or experiment duration" >>
     ELSE <<>>)
    \o (IF NumberLt(metrics.evidence_strength, 7, 10)
        THEN << "Collect more quantitative data",
                "Increase diversity of evidence sources" >>
        ELSE <<>>)
    \o (IF NumberLt(metrics.confidence_level, 3, 5)
        THEN << "Strengthen validation methodology",
                "Consider additional validation techniques" >>
        ELSE <<>>)

----------------------------------------------------------------------------
(* SpecRecommend: generateRecommendations applied to bounded aggregates *)

\* the values an aggregate may have: below, at and above the thresholds 0.5,
\* 0.6 and 0.7, and NaN
Levels ==
    { Number(2, 5), Number(1, 2), Number(3, 5), Number(7, 10), Number(4, 5),
      Number(0, 0) }
Aggregates ==
    [success_rate : Levels, evidence_strength : Levels,
     confidence_level : Levels]

InitRecommend ==
    /\ InitEngine /\ InitTracker /\ InitServices
    /\ argMetrics \in Aggregates
    /\ argCriteria = <<>>
    /\ lastCall = NoCall

\* generateRecommendations(results, argMetrics)
GenerateRecommendations ==
    /\ lastCall' = Call("generateRecommendations", "", <<>>,
                        generateRecommendations(<<>>, argMetrics))
    /\ UNCHANGED <<engineVars, trackerVars, classifyVars, serviceVars,
               callVars, mlVars>>

NextRecommend == GenerateRecommendations

SpecRecommend == InitRecommend /\ [][NextRecommend]_vars

\* the six items generateRecommendations can produce, in the order of the rules
RecommendationItems ==
    << "Review experiment design and success criteria",
       "Consider increasing sample size or experiment duration",
       "Collect more quantitative data",
       "Increase diversity of evidence sources",
       "Strengthen validation methodology",
       "Consider additional validation techniques" >>

\* C11: the recommendations are the two success-rate items iff success_rate
\* < 0.5, then the two evidence items iff evidence_strength < 0.7, then the
\* two confidence items iff confidence_level < 0.6, in that order; a value
\* equal to its threshold adds nothing, the rules fire independently and no
\* other item is produced.
C11_RecommendationRules ==
    lastCall.op = "generateRecommendations" =>
        LET rec == lastCall.outcome
            fires == << NumberLt(argMetrics.success_rate, 1, 2),
                        NumberLt(argMetrics.evidence_strength, 7, 10),
                        NumberLt(argMetrics.confidence_level, 3, 5) >>
            \* the position of the i-th produced item among the six
            pos(i) == CHOOSE k \in 1..6 : RecommendationItems[k] = rec[i]
        IN  /\ Range(rec) \subseteq Range(RecommendationItems)
            /\ \A k \in 1..6 :
                   RecommendationItems[k] \in Range(rec) <=> fires[(k + 1) \div 2]
            /\ \A i \in 1..(Len(rec) - 1) : pos(i) < pos(i + 1)
            /\ argMetrics.success_rate = Number(1, 2) => ~fires[1]
            /\ argMetrics.evidence_strength = Number(7, 10) => ~fires[2]
            /\ argMetrics.confidence_level = Number(3, 5) => ~fires[3]

\* success_rate and confidence_level sit on their thresholds, evidence_strength
\* is below its own: only the two evidence items are produced
C11_Witness ==
    /\ lastCall.op = "generateRecommendations"
    /\ argMetrics.success_rate = Number(1, 2)
    /\ argMetrics.evidence_strength = Number(3, 5)
    /\ argMetrics.confidence_level = Number(3, 5)
    /\ lastCall.outcome = << "Collect more quantitative data",
                             "Increase diversity of evidence sources" >>

----------------------------------------------------------------------------
(* ResultsTracker: generateReport and getSuccessFactors *)

\* getResults, getMetrics and aggregateInsights are called by the source but
\* defined nowhere in it: getResults gives the type's stored list, getMetrics
\* the type's stored aggregate, aggregateInsights the insights of the results
\* in order, each string once (spec.md section 4.5).

Minus(x, y) ==
    IF x.nan \/ y.nan THEN Number(0, 0)
    ELSE Number(x.num * y.den - y.num * x.den, x.den * y.den)
Times(x, y) ==
    IF x.nan \/ y.nan THEN Number(0, 0)
    ELSE Number(x.num * y.num, x.den * y.den)

getResults(rs, type) == ResultsOf(rs, type)
getMetrics(tm, type) == tm[type]

RECURSIVE aggregateInsights(_)
aggregateInsights(list) ==
    IF list = <<>> THEN <<>>
    ELSE LET front == aggregateInsights(SubSeq(list, 1, Len(list) - 1))
             last == list[Len(list)].insights
             RECURSIVE merge(_, _)
             merge(acc, i) ==
                 IF i > Len(last) THEN acc
                 ELSE merge(IF last[i] \in Range(acc) THEN acc
                            ELSE Append(acc, last[i]), i + 1)
         IN  merge(front, 1)

\* generateTimeline: the events of the results by ascending timestamp; the
\* results are stamped when they are tracked, so the stable sort keeps the
\* list in its stored order
generateTimeline(list) ==
    [i \in 1..Len(list) |->
        [event |-> << "Experiment ", list[i].experimentId, " completed" >>,
         status |-> list[i].status,
         metrics |-> list[i].metrics]]

\* the report generateReport builds from the stored list and aggregate
generateReportOf(rs, tm, experimentType) ==
    LET list == getResults(rs, experimentType)
        metrics == getMetrics(tm, experimentType)
    IN  [ experimentType |-> experimentType,
          totalExperiments |-> Len(list),
          successRate |-> metrics.success_rate,
          averageConfidence |-> metrics.confidence_level,
          insights |-> aggregateInsights(list),
          recommendations |-> generateRecommendations(list, metrics),
          evidenceStrength |-> metrics.evidence_strength,
          timeline |-> generateTimeline(list) ]

\* calculateCorrelation(x, y): (n*sum_xy - sum_x*sum_y) divided by the square
\* root of (n*sum_xx - sum_x^2) * (n*sum_yy - sum_y^2), kept as the numerator
\* and the radicand; 0 / 0 is NaN and a non-zero numerator over 0 is infinite
calculateCorrelation(x, y) ==
    LET n == Len(x)
        RECURSIVE total(_, _)
        total(f, i) == IF i > n THEN 0 ELSE f[i] + total(f, i + 1)
        sum_x == total(x, 1)
        sum_y == total(y, 1)
        sum_xy == total([i \in 1..n |-> x[i] * y[i]], 1)
        sum_xx == total([i \in 1..n |-> x[i] * x[i]], 1)
        sum_yy == total([i \in 1..n |-> y[i] * y[i]], 1)
        num == n * sum_xy - sum_x * sum_y
        rad == (n * sum_xx - sum_x * sum_x) * (n * sum_yy - sum_y * sum_y)
    IN  [ nan |-> (rad = 0 /\ num = 0) \/ rad < 0,
          inf |-> (rad = 0 /\ num # 0),
          num |-> num, rad |-> rad ]

\* calculateFactorImportance: Math.abs of the correlation of the metric's
\* values (0 where a result lacks the metric) with the success indicator
calculateFactorImportance(metric, list) ==
    LET successCorrelation ==
            calculateCorrelation(
                [i \in 1..Len(list) |->
                    IF metric \in DOMAIN list[i].metrics
                       /\ list[i].metrics[metric] # 0
                    THEN list[i].metrics[metric] ELSE 0],
                [i \in 1..Len(list) |->
                    IF list[i].status = "success" THEN 1 ELSE 0])
    IN  [successCorrelation EXCEPT !.num = Abs(@)]

\* calculateFactorConfidence: 1 - standardDeviation / average, kept as the
\* variance and the average it is computed from
calculateFactorConfidence(values) ==
    LET average == DividedBy(Sum(values), Len(values))
        variance ==
            DividedBy(Sum([i \in 1..Len(values) |->
                              Times(Minus(values[i], average),
                                    Minus(values[i], average))]),
                      Len(values))
    IN  [variance |-> variance, average |-> average]

\* the sign of b.importance - a.importance: 1, 0 or -1 (0 - 1), and 0 where the
\* difference is NaN, as the sort reads a NaN comparison
compareImportance(a, b) ==
    LET ia == a.importance
        ib == b.importance
    IN  IF ia.nan \/ ib.nan \/ (ia.inf /\ ib.inf) THEN 0
        ELSE IF ib.inf THEN 1
        ELSE IF ia.inf THEN 0 - 1
        ELSE LET lhs == ib.num * ib.num * ia.rad
                 rhs == ia.num * ia.num * ib.rad
             IN  IF lhs > rhs THEN 1 ELSE IF lhs < rhs THEN 0 - 1 ELSE 0

\* factors.sort((a, b) => b.importance - a.importance): the stable sort
RECURSIVE sortFactors(_)
sortFactors(factors) ==
    IF Len(factors) <= 1 THEN factors
    ELSE LET front == sortFactors(SubSeq(factors, 1, Len(factors) - 1))
             f == factors[Len(factors)]
             \* f goes after the last element it does not precede
             stay == {i \in 1..Len(front) : compareImportance(front[i], f) <= 0}
             at == IF stay = {} THEN 0
                   ELSE CHOOSE i \in stay : \A j \in stay : j <= i
         IN  SubSeq(front, 1, at) \o <<f>> \o SubSeq(front, at + 1, Len(front))

\* analyzeSuccessFactors(results); order is the order in which the metric
\* names enter metricThresholds
analyzeSuccessFactors(list, order) ==
    LET valuesOf(metric) ==
            LET has == SelectSeq([i \in 1..Len(list) |-> i],
                                 LAMBDA i : metric \in DOMAIN list[i].metrics)
            IN  [k \in 1..Len(has) |-> Number(list[has[k]].metrics[metric], 1)]
        factors ==
            [k \in 1..Len(order) |->
                [ metric |-> order[k],
                  threshold |-> DividedBy(Sum(valuesOf(order[k])),
                                          Len(valuesOf(order[k]))),
                  confidence |-> calculateFactorConfidence(valuesOf(order[k])),
                  importance |-> calculateFactorImportance(order[k], list) ]]
    IN  sortFactors(factors)

\* the metric names of the results
MetricNames(list) == UNION { DOMAIN list[i].metrics : i \in 1..Len(list) }

\* the orders in which a set of names can be enumerated
Orders(names) ==
    { order \in [1..Cardinality(names) -> names] :
        \A i, j \in 1..Cardinality(names) : order[i] = order[j] => i = j }

getSuccessFactorsOf(rs, experimentType, order) ==
    analyzeSuccessFactors(
        SelectSeq(getResults(rs, experimentType),
                  LAMBDA r : r.status = "success"), order)

----------------------------------------------------------------------------
(* SpecReport: reports and success factors over a few stored results *)

\* an experiment of a type whose run produced the given metrics
reportedExperiment(type, id, metrics) ==
    LET experiment == newExperiment(initializeTemplates[type], id,
                                    [problem |-> Undefined])
        res == [simulateExperimentExecution(experiment) EXCEPT
                   !.metrics = metrics]
    IN  [experiment EXCEPT
            !.results = Some(res),
            !.status = determineExperimentStatus(res,
                                                 experiment.success_criteria)]

\* the experiments handed to trackResults, as <<type, id, metrics>>: two
\* problem interviews that meet both criteria, one that meets one of two, and
\* a solution interview with the simulated metrics
ReportedExperiments ==
    { << "problem_interview", "exp_a",
         MapSet(MapSet(EmptyMap, "problem_confirmation_rate", 85),
                "active_solution_seeking", 65) >>,
      << "problem_interview", "exp_b",
         MapSet(MapSet(EmptyMap, "problem_confirmation_rate", 85),
                "active_solution_seeking", 20) >>,
      << "problem_interview", "exp_c",
         MapSet(MapSet(EmptyMap, "problem_confirmation_rate", 95),
                "active_solution_seeking", 65) >>,
      << "solution_interview", "exp_d",
         MapSet(MapSet(EmptyMap, "response_rate", 75), "success_rate", 65) >> }

ReportedIds == { e[2] : e \in ReportedExperiments }

\* trackResults(experiment) for an experiment that has not been tracked
TrackReported(e) ==
    /\ StoredResults(results) < MaxReported
    /\ ~Found(results, e[2])
    /\ results' = trackResults(results, reportedExperiment(e[1], e[2], e[3]))
    /\ typeMetrics' = updateMetrics(typeMetrics, results', e[1])
    /\ lastCall' = Call("trackResults", e[2], <<e[1]>>, "ok")
    /\ UNCHANGED <<engineVars, inserted, classifyVars, serviceVars,
               callVars, mlVars>>

\* generateReport(experimentType) for a type that has an aggregate
generateReport(experimentType) ==
    /\ experimentType \in DOMAIN typeMetrics
    /\ lastCall' = Call("generateReport", "", <<experimentType>>,
                        generateReportOf(results, typeMetrics, experimentType))
    /\ UNCHANGED <<engineVars, trackerVars, classifyVars, serviceVars,
               callVars, mlVars>>

\* getSuccessFactors(experimentType)
getSuccessFactors(experimentType) ==
    LET successfulResults ==
            SelectSeq(getResults(results, experimentType),
                      LAMBDA r : r.status = "success")
    IN  /\ \E order \in Orders(MetricNames(successfulResults)) :
               lastCall' = Call("getSuccessFactors", "", <<experimentType>>,
                                getSuccessFactorsOf(results, experimentType,
                                                    order))
        /\ UNCHANGED <<engineVars, trackerVars, classifyVars, serviceVars,
               callVars, mlVars>>

NextReport ==
    \/ \E e \in ReportedExperiments : TrackReported(e)
    \/ \E id \in ReportedIds, evidence \in EvidenceItems :
           addEvidence(id, evidence)
    \/ \E type \in ExperimentTypes : generateReport(type)
    \/ \E type \in ExperimentTypes : getSuccessFactors(type)

SpecReport == Init /\ [][NextReport]_vars

\* the rearrangements of a list
Rearrangements(list) ==
    { [i \in 1..Len(list) |-> list[p[i]]] :
        p \in { q \in [1..Len(list) -> 1..Len(list)] :
                  \A i, j \in 1..Len(list) : q[i] = q[j] => i = j } }

ImportanceGeq(a, b) ==
    /\ ~a.nan /\ ~b.nan
    /\ \/ a.inf
       \/ ~b.inf /\ a.num * a.num * b.rad >= b.num * b.num * a.rad

\* C13: the list getSuccessFactors returns is ordered by non-increasing
\* importance: of every adjacent pair the earlier factor's importance is >=
\* the later one's.
C13_FactorsByImportance ==
    lastCall.op = "getSuccessFactors" =>
        LET factors == lastCall.outcome
        IN  \A i \in 1..(Len(factors) - 1) :
                ImportanceGeq(factors[i].importance, factors[i + 1].importance)

----------------------------------------------------------------------------
(* ExperimentAnalyzer: the enrichment of the insights *)

\* the insights generateInsights may hand to enrichInsights
InsightTexts ==
    { "Strong customer demand for a budgeting tool",
      "The market for budgeting tools is crowded",
      "Most relevant features: export, sync",
      "Interview response rate was high" }

\* insight.includes(word) and step.includes(word), case-sensitive, for the
\* words the controller looks for
includes(insight, word) ==
    word \in
        CASE insight = "Strong customer demand for a budgeting tool"
                 -> {"customer"}
          [] insight = "The market for budgeting tools is crowded"
                 -> {"market"}
          [] insight = "Most relevant features: export, sync"
                 -> {"feature"}
          [] insight = "Review and optimize experiment process to improve completion rate"
                 -> {"optimize", "improve"}
          [] insight = "Run a validation survey with target customers"
                 -> {"validation"}
          [] insight = "Set up calls to verify and improve the value proposition"
                 -> {"verify", "improve"}
          [] insight = "Schedule sessions to explore pricing tiers"
                 -> {"explore"}
          [] OTHER -> {}

\* what a collaborator's analyze(context) settles to: a value or a rejection
Resolved(value) == [ok |-> TRUE, value |-> value]
Rejected == [ok |-> FALSE, value |-> <<>>]

MarketOutcomes == { Resolved([size |-> 12, growth |-> 8]), Rejected }
CompetitorOutcomes ==
    { Resolved([competitors |->
                   << [name |-> "Mint", relevance |-> Number(9, 10)],
                      [name |-> "Excel", relevance |-> Number(1, 2)],
                      [name |-> "YNAB", relevance |-> Number(4, 5)] >>]),
      Rejected }

\* names.join(', ')
RECURSIVE join(_)
join(names) ==
    IF Len(names) = 0 THEN <<>>
    ELSE IF Len(names) = 1 THEN names
    ELSE <<names[1], ", ">> \o join(Tail(names))

\* enrichInsight: a string is the sequence of its pieces, an insight that is
\* returned as it is the one piece
enrichInsight(insight, marketData, competitorData) ==
    IF includes(insight, "market") \/ includes(insight, "customer")
    THEN << insight, " (Market size: $", marketData.size, "B, Growth: ",
            marketData.growth, "%)" >>
    ELSE IF includes(insight, "competitor") \/ includes(insight, "feature")
    THEN LET relevant ==
                 SelectSeq(competitorData.competitors,
                           LAMBDA comp : NumberGt(comp.relevance, 7, 10))
             relevantCompetitors ==
                 join([i \in 1..Len(relevant) |-> relevant[i].name])
         IN  <<insight, " (Key competitors: ">> \o relevantCompetitors
                 \o <<")">>
    ELSE <<insight>>

\* enrichInsights: the two collaborators are awaited in turn, neither await
\* is in a try block, so a rejection rejects enrichInsights
enrichInsights(insights, market, competitor) ==
    IF ~market.ok THEN Rejected
    ELSE IF ~competitor.ok THEN Rejected
    ELSE Resolved([i \in 1..Len(insights) |->
                      enrichInsight(insights[i], market.value,
                                    competitor.value)])

----------------------------------------------------------------------------
(* SpecAnalyzer: analyzeExperiment with collaborators that may fail *)

InsightLists == UNION { [1..n -> InsightTexts] : n \in 0..MaxInsights }

\* analyzeExperiment(experiment, context): insights is what generateInsights
\* resolved to, market and competitor what the collaborators settle to.  The
\* awaits of analyzeExperiment are not in a try block either: the call
\* rejects when enrichInsights rejects, and otherwise returns the
\* AnalysisResult, of which the insights are kept.
analyzeExperiment(insights, market, competitor) ==
    LET enriched == enrichInsights(insights, market, competitor)
    IN  /\ lastCall' = Call("analyzeExperiment", "",
                            <<insights, market, competitor>>,
                            IF enriched.ok THEN enriched ELSE Rejected)
        /\ UNCHANGED <<engineVars, trackerVars, classifyVars, serviceVars,
               callVars, mlVars>>

NextAnalyzer ==
    \E insights \in InsightLists, market \in MarketOutcomes,
       competitor \in CompetitorOutcomes :
        analyzeExperiment(insights, market, competitor)

SpecAnalyzer == Init /\ [][NextAnalyzer]_vars

\* C14: when the market or the competitor enrichment call fails during
\* analyzeExperiment, analyzeExperiment still completes and returns the
\* unenriched insights, the same strings in the same order.
C14_EnrichmentFailureSwallowed ==
    ( /\ lastCall.op = "analyzeExperiment"
      /\ ~lastCall.arg[2].ok \/ ~lastCall.arg[3].ok )
        => /\ lastCall.outcome.ok
           /\ lastCall.outcome.value =
                  [i \in 1..Len(lastCall.arg[1]) |-> <<lastCall.arg[1][i]>>]

InFlight(id) ==
    LET RECURSIVE count(_)
        count(S) == IF S = {} THEN 0
                    ELSE LET run == CHOOSE run \in S : TRUE
                         IN  (IF run.id = id THEN runs[run] ELSE 0)
                                 + count(S \ {run})
    IN  count(DOMAIN runs)

\* C16: at any moment at most one runExperiment call is in flight for an
\* experiment id.
C16_OneRunPerId == \A id \in ExperimentIds : InFlight(id) <= 1

\* C19: for every metrics map and non-empty criteria list the engine's
\* determineExperimentStatus gives completed exactly when the tracker's
\* determineStatus gives success, and failed otherwise, and the two agree on
\* which criteria are met, a metric of value 0 included.
C19_ClassifiersAgree ==
    ( /\ lastCall.op \in {"determineStatus", "determineExperimentStatus"}
      /\ Len(argCriteria) > 0 )
        => /\ determineExperimentStatus([metrics |-> argMetrics], argCriteria)
                  = IF determineStatus(argMetrics, argCriteria) = "success"
                    THEN "completed" ELSE "failed"
           /\ \A i \in 1..Len(argCriteria) :
                  criterionMetTruthy(argMetrics, argCriteria[i])
                      <=> criterionMet(argMetrics, argCriteria[i])

\* C20: when a runExperiment call for a known id finishes, the experiment's
\* status is completed or failed and its results are set.
C20_FinishedRunIsTerminal ==
    [][ ( /\ lastCall'.op = "runExperiment"
          /\ lastCall'.outcome = "returned"
          /\ lastCall'.id \in DOMAIN experiments' )
            => LET experiment == heap'[experiments'[lastCall'.id]]
               IN  /\ experiment.status \in {"completed", "failed"}
                   /\ experiment.results # Undefined ]_vars

----------------------------------------------------------------------------
(* ExperimentTemplateManager: operations *)

\* what a call gives its caller: the value it returns or the error it throws
Returned(value) == [ok |-> TRUE, value |-> value]
Thrown(message) == [ok |-> FALSE, value |-> message]

\* getTemplate(id): the template or undefined
getTemplate(cat, id) ==
    IF \E i \in 1..Len(cat) : cat[i].id = id
    THEN Some(cat[CHOOSE i \in 1..Len(cat) : cat[i].id = id])
    ELSE Undefined

\* getTemplatesForStage(stage): the templates of the stage in catalog order
getTemplatesForStage(cat, stage) ==
    SelectSeq(cat, LAMBDA template : template.stage = stage)

\* `${templateId}_custom_${Date.now()}`
customId(templateId, now) == templateId \o "_custom_" \o ToString(now)

\* customizeTemplate with the id written before the customization is spread
customizeTemplateKeepingId(cat, templateId, customization, now) ==
    LET baseTemplate == getTemplate(cat, templateId)
    IN  IF baseTemplate = Undefined
        THEN Thrown(<<"Template not found: ", templateId>>)
        ELSE Returned(
                 [f \in (DOMAIN baseTemplate[1]) \cup (DOMAIN customization) |->
                    IF f \in DOMAIN customization THEN customization[f]
                    ELSE IF f = "id" THEN customId(templateId, now)
                    ELSE baseTemplate[1][f]])

\* customizeTemplate(templateId, customization), what it gives its caller:
\* { ...baseTemplate, ...customization, id: ... }
customizeTemplateOf(cat, templateId, customization, now) ==
    LET baseTemplate == getTemplate(cat, templateId)
    IN  IF baseTemplate = Undefined
        THEN Thrown(<<"Template not found: ", templateId>>)
        ELSE Returned(
                 [f \in (DOMAIN baseTemplate[1]) \cup (DOMAIN customization) |->
                    IF f = "id" THEN customId(templateId, now)
                    ELSE IF f \in DOMAIN customization THEN customization[f]
                    ELSE baseTemplate[1][f]])

----------------------------------------------------------------------------
(* SpecTemplates: customizeTemplate on the catalog *)

\* the ids asked for: the two in the catalog and one that is not
TemplateIds ==
    {"problem_interview_01", "solution_interview_01", "pricing_test_01"}

ValidationStages ==
    {"problem_validation", "solution_validation", "market_validation"}

\* the fields a customization may give, each with its value
Overrides ==
    [ id |-> "my_template",
      name |-> "Budgeting interviews",
      stage |-> "market_validation",
      duration |-> 7,
      hypothesis |-> "Freelancers lack a budgeting tool" ]

\* Partial<ExperimentTemplate>: any of the fields, or none
Customizations ==
    { [f \in given |-> Overrides[f]] : given \in SUBSET (DOMAIN Overrides) }

\* the values of Date.now()
Timestamps == {1700000000, 1700000001}

\* customizeTemplate(templateId, customization) at the time now
customizeTemplate(templateId, customization, now) ==
    /\ lastCall' = Call("customizeTemplate", templateId,
                        <<customization, now>>,
                        customizeTemplateOf(catalog, templateId,
                                            customization, now))
    /\ UNCHANGED <<engineVars, trackerVars, classifyVars, serviceVars,
               callVars, mlVars>>

NextTemplates ==
    \E templateId \in TemplateIds, customization \in Customizations,
       now \in Timestamps :
        customizeTemplate(templateId, customization, now)

SpecTemplates == Init /\ [][NextTemplates]_vars

\* C17: customizeTemplate(id, overrides) for a known id returns a template
\* whose id is <id>_custom_<timestamp> even when the overrides hold an id and
\* whose every other field is the override where one is given and the base
\* template's value otherwise; for an unknown id it fails with not found; in
\* both cases the catalog is unchanged, so getTemplate and
\* getTemplatesForStage answer the same before and after.
C17_CustomizeTemplate ==
    [][ lastCall'.op = "customizeTemplate" =>
            LET id == lastCall'.id
                overrides == lastCall'.arg[1]
                now == lastCall'.arg[2]
                known == \E i \in 1..Len(catalog) : catalog[i].id = id
                base == catalog[CHOOSE i \in 1..Len(catalog) :
                                    catalog[i].id = id]
                given == lastCall'.outcome
            IN  /\ ~known => ~given.ok
                /\ known =>
                       /\ given.ok
                       /\ given.value.id = id \o "_custom_" \o ToString(now)
                       /\ DOMAIN given.value = DOMAIN base
                       /\ \A f \in (DOMAIN base) \ {"id"} :
                              given.value[f] =
                                  IF f \in DOMAIN overrides THEN overrides[f]
                                  ELSE base[f]
                /\ catalog' = catalog
                /\ \A other \in TemplateIds \cup {"my_template"} :
                       getTemplate(catalog', other) = getTemplate(catalog, other)
                /\ (known /\ given.ok) =>
                       getTemplate(catalog', given.value.id) = Undefined
                /\ \A stage \in ValidationStages :
                       getTemplatesForStage(catalog', stage)
                           = getTemplatesForStage(catalog, stage) ]_vars

\* a customization that gives an id and a name was applied to the problem
\* interview template: the id is the generated one, the name the override,
\* the duration the base template's
C17_Witness ==
    /\ lastCall.op = "customizeTemplate"
    /\ lastCall.id = "problem_interview_01"
    /\ DOMAIN lastCall.arg[1] = {"id", "name"}
    /\ lastCall.outcome.ok
    /\ lastCall.outcome.value.id = "problem_interview_01_custom_1700000001"
    /\ lastCall.outcome.value.name = "Budgeting interviews"
    /\ lastCall.outcome.value.duration = 14
    /\ Len(catalog) = 2

----------------------------------------------------------------------------
(* AuthService: registerUser *)

\* The User model (../models/User) is not in the source: findOne({ email })
\* gives a stored user with that email or null, and create stores a document,
\* as the tests of AuthService use them.  Whether the collection has a unique
\* index on email is not known: create for an email that is stored either
\* stores a second document or rejects with the store's duplicate-key error.

Emails == {"test@example.com", "existing@example.com"}
Passwords == {"password123"}

\* bcrypt.hash(password, 12)
hash(password) == << "$2a$12$", password >>

\* User.findOne({ email })
findOne(us, email) ==
    IF \E i \in 1..Len(us) : us[i].email = email
    THEN Some(us[CHOOSE i \in 1..Len(us) : us[i].email = email])
    ELSE Undefined

\* the number of registerUser calls in flight
Registering ==
    LET RECURSIVE count(_)
        count(S) == IF S = {} THEN 0
                    ELSE LET reg == CHOOSE reg \in S : TRUE
                         IN  registrations[reg] + count(S \ {reg})
    IN  count(DOMAIN registrations)

\* registerUser up to its first await: the call of User.findOne
registerUserBegin(email, password) ==
    /\ Registering + Len(users) < MaxRegistrations
    /\ registrations' = BagAdd(registrations,
                               [email |-> email, password |-> password,
                                pc |-> "findOne"])
    /\ lastCall' = Call("registerUser", email, <<password>>, "suspended")
    /\ UNCHANGED <<engineVars, trackerVars, classifyVars, catalog, users,
                 callVars, mlVars>>

\* registerUser from the first await: findOne has resolved; the call throws
\* when a user was found, and otherwise goes on to bcrypt.hash and User.create
registerUserFound(reg) ==
    /\ reg.pc = "findOne"
    /\ IF findOne(users, reg.email) # Undefined
       THEN /\ registrations' = BagRemove(registrations, reg)
            /\ lastCall' = Call("registerUser", reg.email, <<reg.password>>,
                                "User already exists")
       ELSE /\ registrations' = BagAdd(BagRemove(registrations, reg),
                                       [reg EXCEPT !.pc = "create"])
            /\ lastCall' = Call("registerUser", reg.email, <<reg.password>>,
                                "resumed")
    /\ UNCHANGED <<engineVars, trackerVars, classifyVars, catalog, users,
                 callVars, mlVars>>

\* registerUser from the awaits of bcrypt.hash and User.create to its end:
\* the store creates the user and the call returns it, or the store rejects
\* the duplicate and the call fails with the store's error
registerUserCreate(reg) ==
    /\ reg.pc = "create"
    /\ registrations' = BagRemove(registrations, reg)
    /\ \/ /\ users' = Append(users, [email |-> reg.email,
                                     password |-> hash(reg.password)])
          /\ lastCall' = Call("registerUser", reg.email, <<reg.password>>,
                              "returned")
       \/ /\ findOne(users, reg.email) # Undefined
          /\ users' = users
          /\ lastCall' = Call("registerUser", reg.email, <<reg.password>>,
                              "duplicate key")
    /\ UNCHANGED <<engineVars, trackerVars, classifyVars, catalog,
                 callVars, mlVars>>

NextAuth ==
    \/ \E email \in Emails, password \in Passwords :
           registerUserBegin(email, password)
    \/ \E reg \in DOMAIN registrations : registerUserFound(reg)
    \/ \E reg \in DOMAIN registrations : registerUserCreate(reg)

SpecAuth == Init /\ [][NextAuth]_vars

\* C18: after any interleaving of registerUser calls the store holds at most
\* one user per email: a registerUser call that ends while its email has a
\* user fails with 'User already exists' and creates nothing, also when two
\* registrations of one new email overlap between the check and the create.
C18_OneUserPerEmail ==
    [][ ( /\ lastCall'.op = "registerUser"
          /\ lastCall'.outcome \notin {"suspended", "resumed"} )
            => /\ findOne(users, lastCall'.id) # Undefined
                      => /\ lastCall'.outcome = "User already exists"
                         /\ users' = users
               /\ \A email \in Emails :
                      Cardinality({ i \in 1..Len(users') :
                                      users'[i].email = email }) <= 1 ]_vars

\* the experiments of the store, as the objects it refers to
StoredExperiments == { experiments[id] : id \in DOMAIN experiments }

\* C25: every result the tracker holds refers to an experiment that is in the
\* engine's store, and no operation removes an experiment from the store.
C25_NoOrphanResults ==
    [][ /\ \A type \in DOMAIN results' :
               \A i \in 1..Len(results'[type]) :
                   \E ref \in { experiments'[id] : id \in DOMAIN experiments' } :
                       /\ heap'[ref].id = results'[type][i].experimentId
                       /\ heap'[ref].type = results'[type][i].experimentType
        /\ StoredExperiments
               \subseteq { experiments'[id] : id \in DOMAIN experiments' } ]_vars

\* C27: an experiment has results set if and only if its status is completed
\* or failed, also while a runExperiment call on it is suspended.
C27_ResultsIffTerminal ==
    \A ref \in 1..Len(heap) :
        (heap[ref].results # Undefined)
            <=> (heap[ref].status \in {"completed", "failed"})

\* the number of results the tracker holds for an experiment id
ResultsFor(id) ==
    LET RECURSIVE count(_)
        count(S) ==
            IF S = {} THEN 0
            ELSE LET t == CHOOSE t \in S : TRUE
                 IN  Cardinality({ i \in 1..Len(results[t]) :
                                     results[t][i].experimentId = id })
                         + count(S \ {t})
    IN  count(DOMAIN results)

\* C28: an experiment is handed to trackResults at most once: the tracker
\* never holds two results for one experiment id.
C28_TrackedOnce == \A id \in ExperimentIds : ResultsFor(id) <= 1

\* C29: with the built-in templates and simulation no criterion of a template
\* names a simulated metric, every runExperiment call sets the status failed
\* when the simulation has resolved, and no experiment is ever completed.
C29_SimulationAlwaysFails ==
    [][ /\ \A ref \in 1..Len(heap') :
               /\ heap'[ref].status # "completed"
               /\ \A i \in 1..Len(heap'[ref].success_criteria) :
                      heap'[ref].success_criteria[i].metric \notin
                          DOMAIN simulateExperimentExecution(heap'[ref]).metrics
        /\ \A run \in DOMAIN runs :
               ( /\ run.pc = "simulate"
                 /\ lastCall'.outcome = "resumed"
                 /\ (run \notin DOMAIN runs' \/ runs'[run] < runs[run]) )
                   => heap'[run.exp].status = "failed" ]_vars

\* a runExperiment call has gone past the simulation: its experiment is
\* failed and holds the simulated results
C29_Witness ==
    /\ lastCall.op = "runExperiment"
    /\ lastCall.outcome = "resumed"
    /\ \E run \in DOMAIN runs :
           /\ run.pc = "track"
           /\ heap[run.exp].status = "failed"
           /\ heap[run.exp].results # Undefined
           /\ DOMAIN heap[run.exp].results[1].metrics
                  = {"response_rate", "success_rate"}

\* C23: the importance of every success factor is the absolute correlation
\* of its metric with the success indicator over all results of the type,
\* failed and inconclusive ones included.
C23_ImportanceOverAllResults ==
    lastCall.op = "getSuccessFactors" =>
        LET factors == lastCall.outcome
            allResults == getResults(results, lastCall.arg[1])
        IN  \A i \in 1..Len(factors) :
                LET got == factors[i].importance
                    overAll == calculateFactorImportance(factors[i].metric,
                                                         allResults)
                IN  \/ got.nan /\ overAll.nan
                    \/ /\ ~got.nan /\ ~overAll.nan
                       /\ ImportanceGeq(got, overAll)
                       /\ ImportanceGeq(overAll, got)

\* C24: the confidence of every stored result is within [0, 1].
C24_ConfidenceInUnitRange ==
    \A type \in DOMAIN results :
        \A i \in 1..Len(results[type]) :
            /\ QuotientGeq(results[type][i].confidence, 0, 1)
            /\ NumberLeq(results[type][i].confidence, 1, 1)

----------------------------------------------------------------------------
(* SpecNextSteps: determineNextSteps of the ExperimentAnalyzer *)

\* metrics.get(name) || 0
getOrZero(metrics, name) ==
    IF name \in DOMAIN metrics /\ ~metrics[name].nan THEN metrics[name]
    ELSE Number(0, 1)

\* identifyValidationGaps(metrics): thresholds 0.8, 0.7 and 0.9
identifyValidationGaps(metrics) ==
    (IF NumberLt(getOrZero(metrics, "confidence"), 4, 5)
     THEN <<"confidence">> ELSE <<>>)
    \o (IF NumberLt(getOrZero(metrics, "evidence_strength"), 7, 10)
        THEN <<"evidence">> ELSE <<>>)
    \o (IF NumberLt(getOrZero(metrics, "completion_rate"), 9, 10)
        THEN <<"completion">> ELSE <<>>)

\* generateValidationSteps(gaps): gaps.map(...).filter(Boolean)
generateValidationSteps(gaps) ==
    SelectSeq(
        [i \in 1..Len(gaps) |->
            CASE gaps[i] = "confidence"
                     -> "Conduct additional interviews to increase confidence"
              [] gaps[i] = "evidence"
                     -> "Gather more quantitative data to strengthen evidence"
              [] gaps[i] = "completion"
                     -> "Review and optimize experiment process to improve completion rate"
              [] OTHER -> ""],
        LAMBDA step : step # "")

\* a priority that looks for the improvement words first
calculateStepPriorityImprovementFirst(step) ==
    IF includes(step, "improve") \/ includes(step, "optimize")
    THEN Number(3, 10)
    ELSE IF includes(step, "validation") \/ includes(step, "verify")
    THEN Number(4, 10)
    ELSE IF includes(step, "explore") \/ includes(step, "investigate")
    THEN Number(2, 10)
    ELSE Number(1, 10)

\* calculateStepPriority(step): weights 0.4, 0.3, 0.2 and 0.1
calculateStepPriority(step) ==
    IF includes(step, "validation") \/ includes(step, "verify")
    THEN Number(4, 10)
    ELSE IF includes(step, "improve") \/ includes(step, "optimize")
    THEN Number(3, 10)
    ELSE IF includes(step, "explore") \/ includes(step, "investigate")
    THEN Number(2, 10)
    ELSE Number(1, 10)

\* steps.sort((a, b) => bScore - aScore): the stable sort
RECURSIVE prioritizeNextSteps(_)
prioritizeNextSteps(steps) ==
    IF Len(steps) <= 1 THEN steps
    ELSE LET front == prioritizeNextSteps(SubSeq(steps, 1, Len(steps) - 1))
             s == steps[Len(steps)]
             \* bScore - aScore <= 0 for a = front[i], b = s: s stays behind
             stay == { i \in 1..Len(front) :
                         LET diff == Minus(calculateStepPriority(s),
                                           calculateStepPriority(front[i]))
                         IN  NumberLeq(diff, 0, 1) }
             at == IF stay = {} THEN 0
                   ELSE CHOOSE i \in stay : \A j \in stay : j <= i
         IN  SubSeq(front, 1, at) \o <<s>> \o SubSeq(front, at + 1, Len(front))

\* determineNextSteps(experiment, metrics, context); typeSteps is what the
\* generator for the experiment's type returns
determineNextStepsOf(type, metrics, typeSteps) ==
    LET validationGaps == identifyValidationGaps(metrics)
        nextSteps ==
            generateValidationSteps(validationGaps)
            \o (IF type \in {"problem_interview", "solution_interview",
                             "pricing_test"}
                THEN typeSteps ELSE <<>>)
    IN  prioritizeNextSteps(nextSteps)

\* the steps a type's generator may return: one for each priority class
TypeStepTexts ==
    { "Run a validation survey with target customers",
      "Set up calls to verify and improve the value proposition",
      "Schedule sessions to explore pricing tiers",
      "Draft the solution brief" }
TypeSteps ==
    UNION { [1..n -> TypeStepTexts] : n \in 0..MaxTypeSteps }

\* the metrics of the analysis: each of the three absent, below every
\* threshold, at 0.8 or above every threshold
GapLevels == { Number(3, 5), Number(4, 5), Number(19, 20) }
GapMetrics ==
    UNION { [names -> GapLevels] :
              names \in SUBSET {"confidence", "evidence_strength",
                                "completion_rate"} }
AnalyzedTypes ==
    {"problem_interview", "solution_interview", "pricing_test", "landing_page"}

InitNextSteps ==
    /\ InitEngine /\ InitTracker /\ InitServices
    /\ argMetrics \in GapMetrics
    /\ argCriteria \in TypeSteps
    /\ lastCall = NoCall

\* determineNextSteps(experiment, argMetrics, context), the generator of the
\* experiment's type returning argCriteria
determineNextSteps(type) ==
    /\ lastCall' = Call("determineNextSteps", "",
                        <<type, argMetrics, argCriteria>>,
                        determineNextStepsOf(type, argMetrics, argCriteria))
    /\ UNCHANGED <<engineVars, trackerVars, classifyVars, serviceVars,
               callVars, mlVars>>

NextNextSteps == \E type \in AnalyzedTypes : determineNextSteps(type)

SpecNextSteps == InitNextSteps /\ [][NextNextSteps]_vars

\* the three validation-gap steps in the order of their generation
GapSteps ==
    << "Conduct additional interviews to increase confidence",
       "Gather more quantitative data to strengthen evidence",
       "Review and optimize experiment process to improve completion rate" >>

\* the priority class of a step in tenths: validation 4, improvement 3,
\* exploration 2, optimization 1
PriorityClass(step) ==
    IF includes(step, "validation") \/ includes(step, "verify") THEN 4
    ELSE IF includes(step, "improve") \/ includes(step, "optimize") THEN 3
    ELSE IF includes(step, "explore") \/ includes(step, "investigate") THEN 2
    ELSE 1

\* C26: determineNextSteps returns a permutation of the generated steps (the
\* validation-gap steps in the order confidence, evidence, completion, then
\* the type-specific steps) sorted by non-increasing priority score, steps of
\* equal score keeping the order of their generation.
C26_StepsByPriority ==
    lastCall.op = "determineNextSteps" =>
        LET type == lastCall.arg[1]
            metrics == lastCall.arg[2]
            typeSteps == lastCall.arg[3]
            returned == lastCall.outcome
            gaps == identifyValidationGaps(metrics)
            gapSteps ==
                SelectSeq(GapSteps,
                    LAMBDA step :
                        \E i \in 1..Len(gaps) :
                            step = generateValidationSteps(<<gaps[i]>>)[1])
            generated ==
                gapSteps \o (IF type = "landing_page" THEN <<>> ELSE typeSteps)
            \* where the k-th generated step belongs
            place(k) ==
                1 + Cardinality({ j \in 1..Len(generated) :
                                    \/ PriorityClass(generated[j])
                                           > PriorityClass(generated[k])
                                    \/ /\ PriorityClass(generated[j])
                                              = PriorityClass(generated[k])
                                       /\ j < k })
        IN  /\ Len(returned) = Len(generated)
            /\ \A k \in 1..Len(generated) : returned[place(k)] = generated[k]
            /\ \A i \in 1..(Len(returned) - 1) :
                   PriorityClass(returned[i]) >= PriorityClass(returned[i + 1])

\* a call with all three gaps and two type-specific steps: the validation
\* step comes first, the two steps of score 0.3 keep their order, and so do
\* the two of score 0.1
C26_Witness ==
    /\ lastCall.op = "determineNextSteps"
    /\ lastCall.arg[3] =
           << "Set up calls to verify and improve the value proposition",
              "Run a validation survey with target customers" >>
    /\ lastCall.outcome =
           << "Set up calls to verify and improve the value proposition",
              "Run a validation survey with target customers",
              "Review and optimize experiment process to improve completion rate",
              "Conduct additional interviews to increase confidence",
              "Gather more quantitative data to strengthen evidence" >>

----------------------------------------------------------------------------
(* SpecRetention: the capped histories of MLFeedbackSystem and DataCollector *)

\* updatePerformanceHistory without the shift
updatePerformanceHistoryUnbounded(history, stageId, metrics) ==
    LET present == IF stageId \in DOMAIN history THEN history
                   ELSE MapSet(history, stageId, <<>>)
    IN  MapSet(present, stageId, Append(present[stageId], metrics))

\* MLFeedbackSystem.updatePerformanceHistory, its effect on performanceHistory
updatePerformanceHistoryOn(history, stageId, metrics) ==
    LET present == IF stageId \in DOMAIN history THEN history
                   ELSE MapSet(history, stageId, <<>>)
        pushed == Append(present[stageId], metrics)
    IN  MapSet(present, stageId,
               IF Len(pushed) > 1000 THEN Tail(pushed) ELSE pushed)

\* DataCollector.storeData, its effect on collectedData; validityThreshold
\* is 0.7
storeDataOn(collected, type, data) ==
    LET present == IF type \in DOMAIN collected THEN collected
                   ELSE MapSet(collected, type, <<>>)
        pushed == Append(present[type], data)
    IN  IF QuotientGeq(data.validity, 7, 10)
        THEN MapSet(present, type,
                    IF Len(pushed) > 1000 THEN Tail(pushed) ELSE pushed)
        ELSE present

\* the entries pushed so far into the histories of the keys
RECURSIVE Entries(_)
Entries(keys) ==
    IF keys = {} THEN 0
    ELSE LET key == CHOOSE key \in keys : TRUE
         IN  accepted[key] + Entries(keys \ {key})

\* one history of each component is filled past the cap while the other
\* histories hold a few entries
LongKeys == {"problem_validation", "market"}
WithinBounds(key) ==
    /\ accepted[key] < (IF key \in LongKeys THEN MaxInserts
                        ELSE MaxOtherInserts)
    /\ Entries(HistoryKeys \ {key}) <= MaxOtherInserts

\* the metrics of the n-th call for a stage and the n-th datum of a type
NthMetrics(n) == [iterations |-> n]
NthData(type, n, validity) ==
    [id |-> ToString(n), type |-> type, validity |-> validity]

\* what calculateValidity returns and a value below the threshold
Validities == { Number(17, 20), Number(1, 2) }

updatePerformanceHistory(stageId) ==
    /\ WithinBounds(stageId)
    /\ accepted' = [accepted EXCEPT ![stageId] = @ + 1]
    /\ performanceHistory' =
           updatePerformanceHistoryOn(performanceHistory, stageId,
                                      NthMetrics(accepted'[stageId]))
    /\ lastCall' = Call("updatePerformanceHistory", stageId, <<>>, "ok")
    /\ UNCHANGED <<engineVars, trackerVars, classifyVars, serviceVars,
                   callVars, collectedData>>

storeData(type, validity) ==
    LET data == NthData(type, accepted[type] + 1, validity)
    IN  /\ WithinBounds(type)
        /\ collectedData' = storeDataOn(collectedData, type, data)
        /\ accepted' = IF QuotientGeq(validity, 7, 10)
                       THEN [accepted EXCEPT ![type] = @ + 1]
                       ELSE accepted
        /\ lastCall' = Call("storeData", type, <<validity>>, "ok")
        /\ UNCHANGED <<engineVars, trackerVars, classifyVars, serviceVars,
                       callVars, performanceHistory>>

NextRetention ==
    \/ \E stageId \in StageIds : updatePerformanceHistory(stageId)
    \/ \E type \in DataTypes, validity \in Validities :
           storeData(type, validity)

SpecRetention == Init /\ [][NextRetention]_vars

\* C30: every history of performanceHistory and of collectedData holds at
\* most 1000 entries, the most recently accepted ones in insertion order: an
\* accepted insertion into a full history evicts exactly the oldest entry.
C30_HistoriesKeepLatest ==
    /\ \A stageId \in DOMAIN performanceHistory :
           LET n == accepted[stageId]
               len == Len(performanceHistory[stageId])
           IN  /\ len <= 1000
               /\ len = IF n <= 1000 THEN n ELSE 1000
               /\ \A i \in 1..len :
                      performanceHistory[stageId][i] = NthMetrics(n - len + i)
    /\ \A type \in DOMAIN collectedData :
           LET n == accepted[type]
               len == Len(collectedData[type])
           IN  /\ len <= 1000
               /\ len = IF n <= 1000 THEN n ELSE 1000
               /\ \A i \in 1..len :
                      /\ collectedData[type][i].id = ToString(n - len + i)
                      /\ QuotientGeq(collectedData[type][i].validity, 7, 10)

\* the 1001st metrics of a stage were pushed: the first are gone and 1000
\* remain, next to another history that holds an entry
C30_Witness ==
    /\ lastCall.op = "updatePerformanceHistory"
    /\ accepted["problem_validation"] = 1001
    /\ Len(performanceHistory["problem_validation"]) = 1000
    /\ performanceHistory["problem_validation"][1] = NthMetrics(2)
    /\ performanceHistory["problem_validation"][1000] = NthMetrics(1001)
    /\ "market" \in DOMAIN collectedData
    /\ Len(collectedData["market"]) = 1

----------------------------------------------------------------------------
(* SpecUpdates: overlapping trackMetric and addEvidence calls on one result *)

\* the ResultsTracker calls suspended at an await
Pending ==
    LET RECURSIVE count(_)
        count(S) == IF S = {} THEN 0
                    ELSE LET call == CHOOSE call \in S : TRUE
                         IN  calls[call] + count(S \ {call})
    IN  count(DOMAIN calls)

\* the evidence items the callers add
AppendedEvidence ==
    { Evidence("quantitative", "survey", 42, Number(3, 2)),
      Evidence("qualitative", "interview", 7, Number(4, 5)) }

\* trackMetric up to its await of updateMetrics: the result is looked up and
\* written and the aggregate recomputed before the call suspends; a call
\* that finds no result has nothing to await
trackMetricBegin(experimentId, metric, value) ==
    /\ Pending < MaxPending
    /\ results' = trackMetricOn(results, experimentId, metric, value)
    /\ typeMetrics' = MetricsAfter(typeMetrics, results, results', experimentId)
    /\ calls' = IF Found(results, experimentId)
                THEN BagAdd(calls, [op |-> "trackMetric", id |-> experimentId])
                ELSE calls
    /\ lastCall' = Call("trackMetric", experimentId, <<metric, value>>,
                        IF Found(results, experimentId) THEN "suspended"
                        ELSE "returned")
    /\ UNCHANGED <<engineVars, inserted, classifyVars, serviceVars, mlVars>>

\* addEvidence up to the await of updateMetrics in updateExperimentConfidence:
\* the push, analyzeEvidence and the confidence are written before the call
\* suspends
addEvidenceBegin(experimentId, evidence) ==
    /\ Pending < MaxPending
    /\ Found(results, experimentId) =>
           Len(ResultAt(results, findExperimentResult(results, experimentId))
                   .evidence) < MaxAppended
    /\ results' = addEvidenceOn(results, experimentId, evidence)
    /\ typeMetrics' = MetricsAfter(typeMetrics, results, results', experimentId)
    /\ calls' = IF Found(results, experimentId)
                THEN BagAdd(calls, [op |-> "addEvidence", id |-> experimentId])
                ELSE calls
    /\ lastCall' = Call("addEvidence", experimentId, <<evidence>>,
                        IF Found(results, experimentId) THEN "suspended"
                        ELSE "returned")
    /\ UNCHANGED <<engineVars, inserted, classifyVars, serviceVars, mlVars>>

\* a suspended trackMetric or addEvidence call resumes after its awaits and
\* returns
updateReturn(call) ==
    /\ call.op \in {"trackMetric", "addEvidence"}
    /\ calls' = BagRemove(calls, call)
    /\ lastCall' = Call(call.op, call.id, <<>>, "resumed")
    /\ UNCHANGED <<engineVars, trackerVars, classifyVars, serviceVars, mlVars>>

NextUpdates ==
    \/ \E e \in TrackedExperiments : TrackResults(e[1], e[2])
    \/ \E id \in {"exp_a", UnknownId}, value \in {70, 90} :
           trackMetricBegin(id, "response_rate", value)
    \/ \E id \in {"exp_a", UnknownId}, evidence \in AppendedEvidence :
           addEvidenceBegin(id, evidence)
    \/ \E call \in DOMAIN calls : updateReturn(call)

SpecUpdates == Init /\ [][NextUpdates]_vars

\* C22: however trackMetric and addEvidence calls on one experiment id
\* overlap, no update is lost: each call writes its metric (the last written
\* value stays) or appends its evidence item once behind the items of the
\* earlier calls, and leaves everything else of the result as it was; a call
\* that resumes after its await writes nothing.
C22_NoLostUpdate ==
    [][ /\ ( /\ lastCall'.op \in {"trackMetric", "addEvidence"}
             /\ lastCall'.outcome = "suspended" ) =>
            LET w == findExperimentResult(results, lastCall'.id)
                before == ResultAt(results, w)
                after == ResultAt(results', w)
            IN  /\ Found(results, lastCall'.id)
                /\ findExperimentResult(results', lastCall'.id) = w
                /\ lastCall'.op = "trackMetric" =>
                       /\ after.metrics = MapSet(before.metrics,
                                                 lastCall'.arg[1],
                                                 lastCall'.arg[2])
                       /\ after.evidence = before.evidence
                /\ lastCall'.op = "addEvidence" =>
                       /\ after.evidence = Append(before.evidence,
                                                  lastCall'.arg[1])
                       /\ after.metrics = before.metrics
                /\ \A t \in DOMAIN results :
                       /\ Len(results'[t]) = Len(results[t])
                       /\ \A i \in 1..Len(results[t]) :
                              <<t, i>> # w => results'[t][i] = results[t][i]
        /\ ( /\ lastCall'.op \in {"trackMetric", "addEvidence"}
             /\ lastCall'.outcome \in {"resumed", "returned"} ) =>
               results' = results ]_vars

\* two addEvidence calls and two trackMetric writes of one metric overlapped
\* on exp_a and have all returned: both items are there in call order and
\* the metric holds the last value written
C22_Witness ==
    /\ calls = EmptyMap
    /\ lastCall.op = "trackMetric"
    /\ lastCall.outcome = "resumed"
    /\ Found(results, "exp_a")
    /\ LET result == ResultAt(results, findExperimentResult(results, "exp_a"))
       IN  /\ result.evidence =
                  << Evidence("qualitative", "interview", 7, Number(4, 5)),
                     Evidence("quantitative", "survey", 42, Number(3, 2)) >>
           /\ result.metrics["response_rate"] = 90

----------------------------------------------------------------------------
(* SpecSnapshot: generateReport suspended while the store is written *)

\* generateReport up to its first await: getResults(experimentType) is
\* called. getResults is given as returning the stored array itself (live)
\* or a copy of it, which holds the results stored at that moment.
generateReportBegin(experimentType, live) ==
    /\ Pending < MaxReports
    /\ experimentType \in DOMAIN typeMetrics
    /\ calls' = BagAdd(calls,
                       [op |-> "generateReport", type |-> experimentType,
                        pc |-> "getResults", live |-> live,
                        count |-> Len(getResults(results, experimentType)),
                        metrics |-> Undefined])
    /\ lastCall' = Call("generateReport", "", <<experimentType>>,
                        [pc |-> "getResults"])
    /\ UNCHANGED <<engineVars, trackerVars, classifyVars, serviceVars, mlVars>>

\* generateReport from its first await: getMetrics(experimentType) is called
\* and gives the aggregate of that moment
generateReportGotResults(call) ==
    /\ call.op = "generateReport" /\ call.pc = "getResults"
    /\ calls' = BagAdd(BagRemove(calls, call),
                       [call EXCEPT
                           !.pc = "getMetrics",
                           !.metrics = Some(getMetrics(typeMetrics, call.type))])
    /\ lastCall' = Call("generateReport", "", <<call.type>>,
                        [pc |-> "getMetrics"])
    /\ UNCHANGED <<engineVars, trackerVars, classifyVars, serviceVars, mlVars>>

\* generateReport from its second await: the report is built from the list
\* the call holds (the stored array as it is now, or the results that were
\* there when it was copied, which are shared objects) and from the
\* aggregate it was given
generateReportReturn(call) ==
    /\ call.op = "generateReport" /\ call.pc = "getMetrics"
    /\ LET stored == getResults(results, call.type)
           list == IF call.live THEN stored
                   ELSE SubSeq(stored, 1, call.count)
       IN  lastCall' =
               Call("generateReport", "", <<call.type>>,
                    generateReportOf([t \in {call.type} |-> list],
                                     [t \in {call.type} |-> call.metrics[1]],
                                     call.type))
    /\ calls' = BagRemove(calls, call)
    /\ UNCHANGED <<engineVars, trackerVars, classifyVars, serviceVars, mlVars>>

NextSnapshot ==
    \/ \E e \in ReportedExperiments : TrackReported(e)
    \/ \E evidence \in EvidenceItems : addEvidence("exp_a", evidence)
    \/ trackMetric("exp_a", "response_rate", 85)
    \/ \E type \in ExperimentTypes, live \in BOOLEAN :
           generateReportBegin(type, live)
    \/ \E call \in DOMAIN calls : generateReportGotResults(call)
    \/ \E call \in DOMAIN calls : generateReportReturn(call)

SpecSnapshot == Init /\ [][NextSnapshot]_vars

\* C21: the fields of a report that generateReport returns describe one state
\* of the store, also when results are tracked or updated while the call is
\* suspended: the success rate is that of the totalExperiments results of
\* the timeline.
C21_ReportIsOneSnapshot ==
    (lastCall.op = "generateReport" /\ "timeline" \in DOMAIN lastCall.outcome)
        => LET report == lastCall.outcome
               successes ==
                   Cardinality({ i \in 1..Len(report.timeline) :
                                   report.timeline[i].status = "success" })
           IN  /\ report.totalExperiments = Len(report.timeline)
               /\ ~report.successRate.nan
               /\ report.successRate.num * report.totalExperiments
                      = successes * report.successRate.den

=============================================================================
